---- MODULE Spec2Model ----
(***************************************************************************)
(* CoinButlerV2: the Position & Risk Ledger (risk_manager.py), the         *)
(* exchange wrapper's failure behaviour (trade_utils.py) and the trade     *)
(* orchestrator's order handlers and main loop (trade_bot.py).             *)
(*                                                                         *)
(* Amounts are integers (the code uses floats); a timestamp is the day     *)
(* number it falls on.  File writes are taken to succeed.                  *)
(***************************************************************************)
EXTENDS Integers, Sequences, FiniteSets, TLC

\* ------------------------------------------------------------------ bounds
MaxPrice == 2       \* prices range over 1..MaxPrice
MaxQty == 1         \* quantities and coin balances range up to MaxQty
MaxDay == 1         \* calendar days 0..MaxDay
MaxTrades == 2      \* rows the audit trade log may hold
MaxPos == 2         \* the configured position cap ranges over 1..MaxPos
MaxLoss == 1        \* the configured daily loss limit ranges over -MaxLoss..-1

Currencies == {"A", "B"}
MarketOf(c) == "KRW-" \o c                      \* risk_manager.py:145
Markets == {MarketOf(c) : c \in Currencies}
Prices == 1..MaxPrice
Quantities == 1..MaxQty
Days == 0..MaxDay
Limits == (0 - MaxLoss)..(0 - 1)

\* Python's None, and a present Optional value
None == << >>
Some(x) == <<x>>

VARIABLES
    positions,        \* RiskManager.positions: dict market -> Position
    positions_file,   \* positions.json: dict market -> Position.to_dict()
    daily_pnl_file,   \* daily_pnl.json: dict date -> accumulated realized P&L
    trade_history,    \* trade_history.csv: the rows after the header
    max_positions,    \* RiskManager.max_positions
    daily_loss_limit, \* RiskManager.daily_loss_limit
    today,            \* date.today()
    is_running,       \* CoinButler.is_running
    is_paused,        \* CoinButler.is_paused
    pc,               \* where the bot's thread is: "idle", "loop", "manage", "scan"
    ret               \* the last call: operation, arguments, what it returned

ledger == <<positions, positions_file, daily_pnl_file, trade_history>>
config == <<max_positions, daily_loss_limit>>
bot == <<is_running, is_paused, pc>>
vars == <<positions, positions_file, daily_pnl_file, trade_history,
          max_positions, daily_loss_limit, today, is_running, is_paused, pc, ret>>

\* ------------------------------------------------------------ Python dicts
EmptyDict == [k \in {} |-> None]
DictPut(d, k, v) == [x \in (DOMAIN d) \cup {k} |-> IF x = k THEN v ELSE d[x]]
DictGet(d, k, default) == IF k \in DOMAIN d THEN d[k] ELSE default

\* -------------------------------------------------------------- Position
Position(market, entry_price, quantity, entry_time, investment_amount) ==
    [market |-> market, entry_price |-> entry_price, quantity |-> quantity,
     entry_time |-> entry_time, investment_amount |-> investment_amount,
     exit_price |-> None, exit_time |-> None, status |-> "open",
     profit_loss |-> None]

\* Faulty variant: the cost taken as quantity * entry price, not the money spent.
calculate_current_pnl_entry(p, current_price) ==
    p.quantity * current_price - p.quantity * p.entry_price

calculate_current_pnl(p, current_price) ==
    p.quantity * current_price - p.investment_amount

\* Faulty variant: the close that leaves the exit time unset.
Position_close_position_untimed(p, exit_price, exit_time) ==
    [p EXCEPT !.exit_price = Some(exit_price), !.status = "closed",
              !.profit_loss = Some(calculate_current_pnl(p, exit_price))]

Position_close_position(p, exit_price, exit_time) ==
    [p EXCEPT !.exit_price = Some(exit_price), !.exit_time = Some(exit_time),
              !.status = "closed",
              !.profit_loss = Some(calculate_current_pnl(p, exit_price))]

\* datetime.isoformat / datetime.fromisoformat
isoformat(t) == <<"iso", t>>
fromisoformat(s) == s[2]

\* Faulty variant: the stored amount recomputed as quantity * entry price.
to_dict_recomputed(p) ==
    [market |-> p.market, entry_price |-> p.entry_price,
     exit_price |-> p.exit_price, quantity |-> p.quantity,
     entry_time |-> isoformat(p.entry_time),
     exit_time |-> IF p.exit_time = None THEN None
                   ELSE Some(isoformat(p.exit_time[1])),
     investment_amount |-> p.quantity * p.entry_price,
     profit_loss |-> p.profit_loss, status |-> p.status]

to_dict(p) ==
    [market |-> p.market, entry_price |-> p.entry_price,
     exit_price |-> p.exit_price, quantity |-> p.quantity,
     entry_time |-> isoformat(p.entry_time),
     exit_time |-> IF p.exit_time = None THEN None
                   ELSE Some(isoformat(p.exit_time[1])),
     investment_amount |-> p.investment_amount,
     profit_loss |-> p.profit_loss, status |-> p.status]

\* ------------------------------------------------------------ RiskManager
\* The manager's mutable state, passed through the operations below.
RM == [positions |-> positions, positions_file |-> positions_file,
       daily_pnl_file |-> daily_pnl_file, trade_history |-> trade_history]

OpenMarkets(ps) == {m \in DOMAIN ps : ps[m].status = "open"}

get_open_positions(ps) == [m \in OpenMarkets(ps) |-> ps[m]]

\* Faulty variant: closed positions written to the store as well.
_save_positions_to_file_all(ps) == [m \in DOMAIN ps |-> to_dict(ps[m])]

_save_positions_to_file(ps) == [m \in OpenMarkets(ps) |-> to_dict(ps[m])]

\* The constructor's restore: starts from the empty dict.
_restore_positions_from_file(file) ==
    [m \in {k \in DOMAIN file : file[k].status = "open"} |->
        Position(file[m].market, file[m].entry_price, file[m].quantity,
                 fromisoformat(file[m].entry_time), file[m].investment_amount)]

get_daily_pnl(file, day) == DictGet(file, day, 0)

\* Faulty variant: the day's figure overwritten instead of accumulated.
_update_daily_pnl_overwrite(file, day, profit_loss) ==
    DictPut(file, day, profit_loss)

_update_daily_pnl(file, day, profit_loss) ==
    DictPut(file, day, DictGet(file, day, 0) + profit_loss)

_record_trade(rm, now, market, action, price, quantity, amount, profit_loss, status) ==
    Append(rm.trade_history,
           [timestamp |-> isoformat(now), market |-> market, action |-> action,
            price |-> price, quantity |-> quantity, amount |-> amount,
            profit_loss |-> profit_loss,
            cumulative_pnl |-> get_daily_pnl(rm.daily_pnl_file, now) + profit_loss,
            status |-> status])

\* Faulty variant: closed positions counted against the cap.
can_open_position_all(ps, cap) == Cardinality(DOMAIN ps) < cap

can_open_position(ps, cap) == Cardinality(OpenMarkets(ps)) < cap

\* Faulty variant: the position registered and logged but not saved.
add_position_nosave(rm, cap, now, market, entry_price, quantity, investment_amount) ==
    IF ~can_open_position(rm.positions, cap)
    THEN [rm |-> rm, value |-> FALSE]
    ELSE IF market \in DOMAIN rm.positions /\ rm.positions[market].status = "open"
    THEN [rm |-> rm, value |-> FALSE]
    ELSE [rm |-> [rm EXCEPT
                    !.positions = DictPut(rm.positions, market,
                                     Position(market, entry_price, quantity, now,
                                              investment_amount)),
                    !.trade_history = _record_trade(rm, now, market, "BUY",
                                         entry_price, quantity, investment_amount,
                                         0, "position opened")],
          value |-> TRUE]

\* Faulty variant: the cap not consulted.
add_position_nocap(rm, cap, now, market, entry_price, quantity, investment_amount) ==
    IF market \in DOMAIN rm.positions /\ rm.positions[market].status = "open"
    THEN [rm |-> rm, value |-> FALSE]
    ELSE LET ps == DictPut(rm.positions, market,
                           Position(market, entry_price, quantity, now, investment_amount))
         IN [rm |-> [rm EXCEPT
                       !.positions = ps,
                       !.trade_history = _record_trade(rm, now, market, "BUY",
                                            entry_price, quantity, investment_amount,
                                            0, "position opened"),
                       !.positions_file = _save_positions_to_file(ps)],
             value |-> TRUE]

\* add_position: the new manager state and the value returned.
add_position(rm, cap, now, market, entry_price, quantity, investment_amount) ==
    IF ~can_open_position(rm.positions, cap)
    THEN [rm |-> rm, value |-> FALSE]
    ELSE IF market \in DOMAIN rm.positions /\ rm.positions[market].status = "open"
    THEN [rm |-> rm, value |-> FALSE]
    ELSE LET ps == DictPut(rm.positions, market,
                           Position(market, entry_price, quantity, now, investment_amount))
         IN [rm |-> [rm EXCEPT
                       !.positions = ps,
                       !.trade_history = _record_trade(rm, now, market, "BUY",
                                            entry_price, quantity, investment_amount,
                                            0, "position opened"),
                       !.positions_file = _save_positions_to_file(ps)],
             value |-> TRUE]

\* Faulty variant: a position closed again although it is closed already.
close_position_again(rm, now, market, exit_price) ==
    IF market \notin DOMAIN rm.positions
    THEN [rm |-> rm, value |-> None]
    ELSE LET position == Position_close_position(rm.positions[market], exit_price, now)
             profit_loss == position.profit_loss[1]
             ps == DictPut(rm.positions, market, position)
         IN [rm |-> [rm EXCEPT
                       !.positions = ps,
                       !.trade_history = _record_trade(rm, now, market, "SELL",
                                            exit_price, position.quantity,
                                            position.quantity * exit_price,
                                            profit_loss, "position closed"),
                       !.daily_pnl_file = _update_daily_pnl(rm.daily_pnl_file, now, profit_loss),
                       !.positions_file = _save_positions_to_file(ps)],
             value |-> Some(profit_loss)]

\* close_position: the new manager state and the value returned.
close_position(rm, now, market, exit_price) ==
    IF market \notin DOMAIN rm.positions \/ rm.positions[market].status # "open"
    THEN [rm |-> rm, value |-> None]
    ELSE LET position == Position_close_position(rm.positions[market], exit_price, now)
             profit_loss == position.profit_loss[1]
             ps == DictPut(rm.positions, market, position)
         IN [rm |-> [rm EXCEPT
                       !.positions = ps,
                       !.trade_history = _record_trade(rm, now, market, "SELL",
                                            exit_price, position.quantity,
                                            position.quantity * exit_price,
                                            profit_loss, "position closed"),
                       !.daily_pnl_file = _update_daily_pnl(rm.daily_pnl_file, now, profit_loss),
                       !.positions_file = _save_positions_to_file(ps)],
             value |-> Some(profit_loss)]

\* A rate in percent is kept exact, as the pair <<numerator, denominator>> with
\* a denominator above 0; a threshold given as a fraction f is the whole number
\* of hundredths f * 100 that the code compares the rate with.
RateGE(rate, hundredths) == rate[1] >= hundredths * rate[2]
RateLE(rate, hundredths) == rate[1] <= hundredths * rate[2]

\* Position.calculate_pnl_rate: (pnl / investment_amount) * 100
calculate_pnl_rate(p, current_price) ==
    <<calculate_current_pnl(p, current_price) * 100, p.investment_amount>>

\* get_position_pnl: None, or Some(<<pnl, pnl_rate>>)
get_position_pnl(rm, market, current_price) ==
    IF market \notin DOMAIN rm.positions \/ rm.positions[market].status # "open"
    THEN None
    ELSE Some(<<calculate_current_pnl(rm.positions[market], current_price),
                calculate_pnl_rate(rm.positions[market], current_price)>>)

\* Faulty variant: the two thresholds taken as exclusive.
should_sell_strict(rm, market, current_price, profit_rate, loss_rate) ==
    LET pnl_info == get_position_pnl(rm, market, current_price)
    IN IF pnl_info = None THEN <<FALSE, "">>
       ELSE IF ~RateLE(pnl_info[1][2], profit_rate) THEN <<TRUE, "take-profit">>
       ELSE IF ~RateGE(pnl_info[1][2], loss_rate) THEN <<TRUE, "stop-loss">>
       ELSE <<FALSE, "">>

\* should_sell: <<sell?, reason>>; profit_rate and loss_rate in hundredths
should_sell(rm, market, current_price, profit_rate, loss_rate) ==
    LET pnl_info == get_position_pnl(rm, market, current_price)
    IN IF pnl_info = None THEN <<FALSE, "">>
       ELSE IF RateGE(pnl_info[1][2], profit_rate) THEN <<TRUE, "take-profit">>
       ELSE IF RateLE(pnl_info[1][2], loss_rate) THEN <<TRUE, "stop-loss">>
       ELSE <<FALSE, "">>

\* check_daily_loss_limit(self): realized P&L only (the loop over open
\* positions adds nothing to unrealized_pnl).
check_daily_loss_limit(rm, limit, day) ==
    LET daily_pnl == get_daily_pnl(rm.daily_pnl_file, day)
        unrealized_pnl == 0
        total_pnl == daily_pnl + unrealized_pnl
    IN total_pnl <= limit

\* A call of check_daily_loss_limit with the positional arguments `args`
\* (self excluded): the method declares none, so any argument raises TypeError.
\* The outcome of a call is Raise(exception) or Return(value).
Raise(e) == [raised |-> TRUE, exception |-> e]
Return(v) == [raised |-> FALSE, value |-> v]

call_check_daily_loss_limit(rm, limit, day, args) ==
    IF Len(args) # 0 THEN Raise("TypeError")
    ELSE Return(check_daily_loss_limit(rm, limit, day))

\* ------------------------------------------------------ exchange wrapper
\* What GET /v1/accounts yields: kind "ok" (a list of account dicts), "error"
\* (the request raised) or "malformed" (a body whose items are not dicts).
NotADict == [notdict |-> TRUE]
CurrencySeq == <<"A", "B">>
AccountsList(krw, bal) ==
    [i \in 1..(1 + Len(CurrencySeq)) |->
        IF i = 1 THEN [currency |-> "KRW", balance |-> krw]
        ELSE [currency |-> CurrencySeq[i - 1], balance |-> bal[CurrencySeq[i - 1]]]]

KrwBalances == {10, 50}                 \* in thousands of KRW
Balances == [Currencies -> 0..MaxQty]
Responses ==
    {[kind |-> "error"], [kind |-> "malformed", body |-> <<NotADict>>]}
    \cup {[kind |-> "ok", body |-> AccountsList(k, b)] : k \in {30}, b \in Balances}

get_accounts(resp) ==
    IF resp.kind = "error" THEN << >> ELSE resp.body

\* get_krw_balance over the list get_accounts returned
\* (account.get on an item that is no dict raises AttributeError)
RECURSIVE krw_scan(_, _)
krw_scan(accounts, i) ==
    IF i > Len(accounts) THEN Return(0)
    ELSE IF "notdict" \in DOMAIN accounts[i] THEN Raise("AttributeError")
    ELSE IF accounts[i].currency = "KRW" THEN Return(accounts[i].balance)
    ELSE krw_scan(accounts, i + 1)

get_krw_balance(resp) == krw_scan(get_accounts(resp), 1)

\* get_current_price: None when the request fails, else the trade price
PriceReadings == {None} \cup {Some(p) : p \in Prices}
PriceMaps == [Markets -> PriceReadings]
Falsy(x) == x = None \/ x = Some(0)

\* ---------------------------------------------------------- reconciliation
RECURSIVE last_buy(_, _, _)
last_buy(history, market, i) ==
    IF i = 0 THEN None
    ELSE IF history[i].market = market /\ history[i].action = "BUY"
    THEN Some(history[i].price)
    ELSE last_buy(history, market, i - 1)

\* Faulty variant: the earliest buy of the market, not the latest.
_estimate_entry_price_from_history_first(history, market) ==
    LET buys == {i \in 1..Len(history) :
                    history[i].market = market /\ history[i].action = "BUY"}
    IN IF buys = {} THEN None
       ELSE Some(history[CHOOSE i \in buys : \A j \in buys : i <= j].price)

_estimate_entry_price_from_history(history, market) ==
    last_buy(history, market, Len(history))

\* The loop over accounts of restore_positions_from_upbit, from item i on.
RECURSIVE restore_loop(_, _, _, _, _, _)
restore_loop(accounts, i, restored, history, price, now) ==
    IF i > Len(accounts) THEN [raised |-> FALSE, restored |-> restored]
    ELSE IF "notdict" \in DOMAIN accounts[i] THEN [raised |-> TRUE]
    ELSE LET currency == accounts[i].currency
             balance == accounts[i].balance
             market == MarketOf(currency)
         IN IF currency # "KRW" /\ balance > 0
            THEN IF Falsy(price[market])
                 THEN restore_loop(accounts, i + 1, restored, history, price, now)
                 ELSE LET current_price == price[market][1]
                          estimate == _estimate_entry_price_from_history(history, market)
                          entry_price == IF Falsy(estimate) THEN current_price
                                         ELSE estimate[1]
                          investment_amount == entry_price * balance
                      IN restore_loop(accounts, i + 1,
                             DictPut(restored, market,
                                     Position(market, entry_price, balance, now,
                                              investment_amount)),
                             history, price, now)
            ELSE restore_loop(accounts, i + 1, restored, history, price, now)

\* Faulty variant: the reconciled index not written to positions.json.
restore_positions_from_upbit_nosave(rm, now, resp, price) ==
    LET r == restore_loop(get_accounts(resp), 1, EmptyDict, rm.trade_history, price, now)
    IN IF r.raised THEN rm ELSE [rm EXCEPT !.positions = r.restored]

\* Faulty variant: a balance added to the quantity the index already holds.
restore_positions_from_upbit_merging(rm, now, resp, price) ==
    LET r == restore_loop(get_accounts(resp), 1, EmptyDict, rm.trade_history, price, now)
        merged == [m \in DOMAIN r.restored |->
                     IF m \in OpenMarkets(rm.positions)
                     THEN [r.restored[m] EXCEPT
                              !.quantity = @ + rm.positions[m].quantity,
                              !.investment_amount =
                                  @ + rm.positions[m].investment_amount]
                     ELSE r.restored[m]]
    IN IF r.raised THEN rm
       ELSE [rm EXCEPT !.positions = merged,
                       !.positions_file = _save_positions_to_file(merged)]

restore_positions_from_upbit(rm, now, resp, price) ==
    LET accounts == get_accounts(resp)
        r == restore_loop(accounts, 1, EmptyDict, rm.trade_history, price, now)
    IN IF r.raised THEN rm
       ELSE [rm EXCEPT !.positions = r.restored,
                       !.positions_file = _save_positions_to_file(r.restored)]

\* ------------------------------------------------------- order handlers
\* Money sent with a buy order is in thousands of KRW; x * 0.8 is Pct(x, 8).
Pct(x, tenths) == (x * tenths) \div 10
Min(a, b) == IF a <= b THEN a ELSE b
Max(a, b) == IF a >= b THEN a ELSE b
DefaultAmount == 30
FloorAmount == 10

\* What the AI allocation call does: disabled, raising, or answering an amount.
AiDisabled == [enabled |-> FALSE]
AiOutcomes == {AiDisabled, [enabled |-> TRUE, ok |-> FALSE]}
              \cup {[enabled |-> TRUE, ok |-> TRUE, amount |-> a] : a \in {5, 100}}

analyze_position_amount(ai, krw_balance) ==
    IF ~ai.enabled THEN Min(DefaultAmount, Pct(krw_balance, 8))
    ELSE IF ~ai.ok THEN Min(DefaultAmount, Pct(krw_balance, 7))
    ELSE Max(Min(ai.amount, Pct(krw_balance, 8)), FloorAmount)

\* settings as get_current_settings returns them (the keys the handlers read)
SettingsSet == {[min_balance_for_buy |-> 30, investment_amount |-> 30,
                 daily_loss_limit |-> l] : l \in Limits}

\* What the exchange answers to an order and to the later order query:
\* order_result None (the POST raised) or an order handle; order_info None or
\* the order's state, executed volume and (when present) average price.
\* A reply is the pair <<order_result, order_info>>; the fields of an order
\* that is not done are never read, so one reply stands for each such state.
OrderInfo(st, v, a) == Some([state |-> st, executed_volume |-> v, avg_price |-> a])
OrderReplies ==
    {<<None, None>>, <<Some("uuid"), None>>,
     <<Some("uuid"), OrderInfo("wait", 0, None)>>,
     <<Some("uuid"), OrderInfo("cancel", 0, None)>>}
    \cup {<<Some("uuid"), OrderInfo("done", v, a)>> : v \in 0..MaxQty, a \in PriceReadings}

OrderState(order_result, order_info) ==
    IF order_result = None THEN "rejected"
    ELSE IF order_info = None THEN "unknown" ELSE order_info[1].state

\* Faulty variant: any answer to the order query taken as a fill.
Confirmed_any(order_info) == order_info # None

Confirmed(order_info) == order_info # None /\ order_info[1].state = "done"

\* Faulty variant: a filled order registered whatever its executed volume.
_execute_buy_anyvolume(rm, cap, now, candidate, settings, resp, ai, order_result, order_info) ==
    LET market == candidate.market
        krw == get_krw_balance(resp)
        krw_balance == krw.value
        none == [rm |-> rm, orders |-> << >>]
    IN IF krw.raised THEN none
       ELSE IF krw_balance < settings.min_balance_for_buy THEN none
       ELSE LET investment_amount ==
                    IF ai.enabled THEN analyze_position_amount(ai, krw_balance)
                    ELSE Min(settings.investment_amount, Pct(krw_balance, 8))
                sent == <<[side |-> "bid", market |-> market, price |-> investment_amount]>>
            IN IF krw_balance < investment_amount THEN none
               ELSE IF order_result = None THEN [rm |-> rm, orders |-> sent]
               ELSE IF Confirmed(order_info)
               THEN LET executed_volume == order_info[1].executed_volume
                        avg_price == IF order_info[1].avg_price = None
                                     THEN candidate.current_price
                                     ELSE order_info[1].avg_price[1]
                    IN [rm |-> add_position(rm, cap, now, market, avg_price,
                                   executed_volume, executed_volume * avg_price).rm,
                        orders |-> sent]
               ELSE [rm |-> rm, orders |-> sent]

\* _execute_buy: the new manager state and the orders sent.
\* Faulty variant: the amount not compared with the balance before the order.
_execute_buy_unfunded(rm, cap, now, candidate, settings, resp, ai, order_result, order_info) ==
    LET krw == get_krw_balance(resp)
        investment_amount ==
            IF ai.enabled THEN analyze_position_amount(ai, krw.value)
            ELSE Min(settings.investment_amount, Pct(krw.value, 8))
    IN IF krw.raised \/ krw.value < settings.min_balance_for_buy
       THEN [rm |-> rm, orders |-> << >>]
       ELSE [rm |-> rm,
             orders |-> <<[side |-> "bid", market |-> candidate.market,
                           price |-> investment_amount]>>]

_execute_buy(rm, cap, now, candidate, settings, resp, ai, order_result, order_info) ==
    LET market == candidate.market
        current_price == candidate.current_price
        krw == get_krw_balance(resp)
        krw_balance == krw.value
        none == [rm |-> rm, orders |-> << >>]
    IN IF krw.raised THEN none
       ELSE IF krw_balance < settings.min_balance_for_buy THEN none
       ELSE LET investment_amount ==
                    IF ai.enabled THEN analyze_position_amount(ai, krw_balance)
                    ELSE Min(settings.investment_amount, Pct(krw_balance, 8))
                sent == <<[side |-> "bid", market |-> market, price |-> investment_amount]>>
            IN IF krw_balance < investment_amount THEN none
               ELSE IF order_result = None THEN [rm |-> rm, orders |-> sent]
               ELSE IF Confirmed(order_info)
               THEN LET executed_volume == order_info[1].executed_volume
                        avg_price == IF order_info[1].avg_price = None THEN current_price
                                     ELSE order_info[1].avg_price[1]
                    IN IF executed_volume > 0
                       THEN [rm |-> add_position(rm, cap, now, market, avg_price,
                                        executed_volume, executed_volume * avg_price).rm,
                             orders |-> sent]
                       ELSE [rm |-> rm, orders |-> sent]
               ELSE [rm |-> rm, orders |-> sent]

\* Faulty variant: the sell order sent without looking for an open position.
_execute_sell_unheld(rm, now, market, current_price, order_result, order_info) ==
    LET held == market \in DOMAIN rm.positions /\ rm.positions[market].status = "open"
        sent == <<[side |-> "ask", market |-> market,
                   volume |-> IF held THEN rm.positions[market].quantity ELSE 0]>>
    IN IF order_result = None THEN [rm |-> rm, orders |-> sent]
       ELSE IF Confirmed(order_info)
       THEN LET avg_price == IF order_info[1].avg_price = None THEN current_price
                             ELSE order_info[1].avg_price[1]
            IN [rm |-> close_position(rm, now, market, avg_price).rm, orders |-> sent]
       ELSE [rm |-> rm, orders |-> sent]

\* _execute_sell: the new manager state and the orders sent.
_execute_sell(rm, now, market, current_price, order_result, order_info) ==
    IF market \notin DOMAIN rm.positions \/ rm.positions[market].status # "open"
    THEN [rm |-> rm, orders |-> << >>]
    ELSE LET position == rm.positions[market]
             sent == <<[side |-> "ask", market |-> market, volume |-> position.quantity]>>
         IN IF order_result = None THEN [rm |-> rm, orders |-> sent]
            ELSE IF Confirmed(order_info)
            THEN LET avg_price == IF order_info[1].avg_price = None THEN current_price
                                  ELSE order_info[1].avg_price[1]
                 IN [rm |-> close_position(rm, now, market, avg_price).rm, orders |-> sent]
            ELSE [rm |-> rm, orders |-> sent]

\* ------------------------------------------------ the body of one pass
\* pnl_rate < -5.0, the test that precedes the collection of a losing position
RateLT(rate, percent) == rate[1] < percent * rate[2]

\* What MarketAnalyzer.get_tradeable_markets answers when the query succeeds.
TradeableMarkets == <<MarketOf("A"), MarketOf("B")>>

\* The names bound at module level in trade_bot.py: its imports, logger,
\* its classes and functions.  get_tradeable_markets is not among them (it is
\* a method of MarketAnalyzer).
ModuleNames ==
    {"os", "time", "logging", "json", "datetime", "timedelta", "List", "Dict",
     "Optional", "genai", "load_dotenv", "UpbitAPI", "MarketAnalyzer",
     "get_upbit_api", "RiskManager", "get_risk_manager",
     "get_market_data_collector", "get_ai_performance_tracker",
     "AIRecommendation", "get_config_manager", "init_notifier", "notify_buy",
     "notify_sell", "logger", "AIAnalyzer", "CoinButler", "get_bot", "main"}

\* The opportunity loop of the swap analysis: the markets not held that show
\* a price, candles and a volume ratio of 2 or more (`view` as in the scan);
\* a missing price change counts as 0.
RECURSIVE opportunity_loop(_, _, _, _)
opportunity_loop(rm, markets, view, i) ==
    IF i > Len(markets) THEN << >>
    ELSE LET market == markets[i]
             rest == opportunity_loop(rm, markets, view, i + 1)
         IN IF market \in DOMAIN get_open_positions(rm.positions) THEN rest
            ELSE IF view[market] = None THEN rest
            ELSE LET seen == view[market][1]
                 IN IF Falsy(seen.current_price) THEN rest
                    ELSE <<[market |-> market,
                            current_price |-> seen.current_price[1],
                            price_change |-> IF seen.price_change = None THEN 0
                                             ELSE seen.price_change[1],
                            trade_amount |-> seen.trade_amount]>> \o rest

\* next((x for x in entries if x['market'] == market), None)
first_of(entries, market) ==
    LET hits == {i \in 1..Len(entries) : entries[i].market = market}
    IN IF hits = {} THEN None
       ELSE Some(entries[CHOOSE i \in hits : \A j \in hits : i <= j])

\* AIAnalyzer.analyze_position_swap: the canned refusal when the analyzer is
\* off, a list is empty or the call failed (answer None), else the model's answer.
analyze_position_swap(ai, losing_positions, market_opportunities, answer) ==
    IF ~ai.enabled \/ losing_positions = << >> \/ market_opportunities = << >>
       \/ answer = None
    THEN [should_swap |-> FALSE, sell_market |-> None, buy_market |-> None,
          confidence |-> None]
    ELSE answer[1]

\* Faulty variant: the answer's markets are traded whenever it says
\* should_swap, whatever its confidence and whether or not they were put to it.
swap_body_unchecked(rm, cap, now, settings, ai, losing_positions, markets, in) ==
    IF in.answer # None /\ in.answer[1].should_swap /\ in.answer[1].sell_market # None
    THEN [rm |-> rm,
          orders |-> <<[side |-> "ask", market |-> in.answer[1].sell_market[1], volume |-> 0],
                       [side |-> "bid", market |-> in.answer[1].buy_market[1], price |-> 0]>>]
    ELSE [rm |-> rm, orders |-> << >>]

\* The body of _analyze_position_swap after its first statement, with
\* `markets` the value that statement would have bound.
swap_body(rm, cap, now, settings, ai, losing_positions, markets, in) ==
    LET none == [rm |-> rm, orders |-> << >>]
    IN IF markets = << >> THEN none
       ELSE LET opportunities ==
                    opportunity_loop(rm, SubSeq(markets, 1, Min(15, Len(markets))),
                                     in.view, 1)
            IN IF opportunities = << >> THEN none
               ELSE LET swap_analysis == analyze_position_swap(ai, losing_positions,
                                                               opportunities, in.answer)
                    IN IF swap_analysis.should_swap /\ swap_analysis.sell_market # None
                          /\ swap_analysis.buy_market # None
                       THEN LET sell_market == swap_analysis.sell_market[1]
                                buy_market == swap_analysis.buy_market[1]
                                confidence == IF swap_analysis.confidence = None THEN 5
                                              ELSE swap_analysis.confidence[1]
                                sell_position == first_of(losing_positions, sell_market)
                                buy_opportunity == first_of(opportunities, buy_market)
                            IN IF sell_position # None /\ buy_opportunity # None
                                  /\ confidence >= settings.ai_confidence_threshold
                               THEN LET sold == _execute_sell(rm, now, sell_market,
                                                    sell_position[1].current_price,
                                                    in.sell_reply[1], in.sell_reply[2])
                                        bought == _execute_buy(sold.rm, cap, now,
                                                      buy_opportunity[1], settings,
                                                      in.resp, ai, in.buy_reply[1],
                                                      in.buy_reply[2])
                                    IN [rm |-> bought.rm,
                                        orders |-> sold.orders \o bought.orders]
                               ELSE none
                       ELSE none

\* _analyze_position_swap: its first statement calls get_tradeable_markets,
\* a name the module does not define; NameError is caught by the method's own
\* handler, so it sends no order and leaves the manager as it is.  `in` holds
\* what the exchange and the analyzer would answer: view, answer, resp,
\* sell_reply, buy_reply.
_analyze_position_swap(rm, cap, now, settings, ai, losing_positions, in) ==
    IF "get_tradeable_markets" \notin ModuleNames
    THEN [rm |-> rm, orders |-> << >>]
    ELSE swap_body(rm, cap, now, settings, ai, losing_positions, TradeableMarkets, in)

\* The loop of _manage_positions over the open positions, taken in the order
\* `order`, from its i-th market on.  A position that is kept and stands below
\* -5% reaches position.get(...), which a Position object does not have:
\* AttributeError is caught by the handler of that market (recorded in
\* `raised`) before anything is appended to losing_positions.
RECURSIVE manage_loop(_, _, _, _, _, _, _, _, _, _)
manage_loop(rm, now, settings, price, replies, order, i, orders, losing_positions, raised) ==
    IF i > Len(order)
    THEN [rm |-> rm, orders |-> orders, losing_positions |-> losing_positions,
          raised |-> raised]
    ELSE LET market == order[i]
             skip == manage_loop(rm, now, settings, price, replies, order, i + 1,
                                 orders, losing_positions, raised)
         IN IF Falsy(price[market]) THEN skip
            ELSE LET current_price == price[market][1]
                     answer == should_sell(rm, market, current_price,
                                           settings.profit_rate, settings.loss_rate)
                 IN IF answer[1]
                    THEN LET r == _execute_sell(rm, now, market, current_price,
                                                replies[market][1], replies[market][2])
                         IN manage_loop(r.rm, now, settings, price, replies, order, i + 1,
                                        orders \o r.orders, losing_positions, raised)
                    ELSE LET pnl_info == get_position_pnl(rm, market, current_price)
                         IN IF pnl_info # None /\ RateLT(pnl_info[1][2], 0 - 5)
                            THEN manage_loop(rm, now, settings, price, replies, order,
                                             i + 1, orders, losing_positions,
                                             raised \cup {market})
                            ELSE skip

\* Faulty variant: the positions below -5% are collected and the swap
\* analysis, when it runs, sends the sell order of one of them.
_manage_positions_swapping(rm, cap, now, settings, price, replies, order, ai, swap_due, in) ==
    LET l == manage_loop(rm, now, settings, price, replies, order, 1,
                         << >>, << >>, {})
        market == CHOOSE m \in l.raised : TRUE
    IN [rm |-> l.rm, exit_orders |-> l.orders,
        swap_orders |-> IF l.raised # {} /\ ai.enabled /\ swap_due
                        THEN <<[side |-> "ask", market |-> market,
                                volume |-> l.rm.positions[market].quantity]>>
                        ELSE << >>,
        raised |-> l.raised]

\* _manage_positions: the new manager state, the orders of the exit checks,
\* the orders of the swap analysis, and the markets whose handler caught
\* AttributeError.  `order` is the iteration order of the dict of open positions.
_manage_positions(rm, cap, now, settings, price, replies, order, ai, swap_due, in) ==
    LET l == manage_loop(rm, now, settings, price, replies, order, 1,
                         << >>, << >>, {})
    IN IF l.losing_positions # << >> /\ ai.enabled /\ swap_due
       THEN LET w == _analyze_position_swap(l.rm, cap, now, settings, ai,
                                            l.losing_positions, in)
            IN [rm |-> w.rm, exit_orders |-> l.orders, swap_orders |-> w.orders,
                raised |-> l.raised]
       ELSE [rm |-> l.rm, exit_orders |-> l.orders, swap_orders |-> << >>,
             raised |-> l.raised]

\* abs(price_change)
Abs(x) == IF x < 0 THEN 0 - x ELSE x

\* ------------------------------------------------------- the AI analyzer
\* The markets the scan may list, and market.replace('KRW-', '').
ScanCurrencies == {"A", "B", "C"}
CoinOf(market) == CHOOSE c \in ScanCurrencies : MarketOf(c) = market

\* data.get('trade_amount', 0): the detailed analysis of a candidate carries
\* no trade amount.
trade_amount_of(data) == IF "trade_amount" \in DOMAIN data THEN data.trade_amount ELSE 0

\* total_score of _get_fallback_recommendation, times 4000:
\* 0.5 * min(trade_amount / 1000, 1) + 0.5 * (min(volume_ratio, 5) / 5
\* + 1 - abs(price_change) / 20) / 2
total_score(data) ==
    2 * Min(trade_amount_of(data), 1000) + 200 * Min(data.volume_ratio, 5)
    + 50 * (20 - Abs(data.price_change))

\* The loop of _get_fallback_recommendation: the first entry with the largest
\* score (best_score starts at -1 and is replaced only by a larger one).
RECURSIVE best_by_score(_, _, _, _)
best_by_score(market_data, i, best, best_score) ==
    IF i > Len(market_data) THEN best
    ELSE IF total_score(market_data[i]) > best_score
         THEN best_by_score(market_data, i + 1, Some(market_data[i]),
                            total_score(market_data[i]))
         ELSE best_by_score(market_data, i + 1, best, best_score)

\* int(best_score * 10) of a score kept times 4000
ScoreToConfidence(score4000) ==
    IF score4000 >= 0 THEN score4000 \div 400 ELSE 0 - ((0 - score4000) \div 400)

_get_fallback_recommendation(market_data) ==
    LET best == best_by_score(market_data, 1, None, 0 - 4000)
    IN IF market_data = << >> \/ best = None
       THEN [recommended_coin |-> None, confidence |-> 0, risk_level |-> "HIGH"]
       ELSE [recommended_coin |-> Some(CoinOf(best[1].market)),
             confidence |-> Max(3, ScoreToConfidence(total_score(best[1]))),
             risk_level |-> "MEDIUM"]

\* _get_detailed_coin_analysis, as far as the fallbacks read it
detailed_coin_analysis(data) ==
    [market |-> data.market, current_price |-> data.current_price,
     volume_ratio |-> data.volume_ratio, price_change |-> data.price_change]

\* _analyze_with_fallback_model: the second model's answer, or the rule-based
\* recommendation over the detailed analyses when its call failed (None).
_analyze_with_fallback_model(detailed_analysis, fallback) ==
    IF fallback = None THEN _get_fallback_recommendation(detailed_analysis)
    ELSE fallback[1]

\* Faulty variant: the second model is never asked.
analyze_market_condition_primary_only(ai, market_data, threshold, primary, fallback) ==
    IF ~ai.enabled
    THEN [result |-> [recommended_coin |-> None, confidence |-> 0,
                      risk_level |-> "MEDIUM"],
          primary_asked |-> FALSE, fallback_asked |-> FALSE]
    ELSE IF primary = None
    THEN [result |-> _get_fallback_recommendation(market_data),
          primary_asked |-> TRUE, fallback_asked |-> FALSE]
    ELSE [result |-> primary[1], primary_asked |-> TRUE, fallback_asked |-> FALSE]

\* AIAnalyzer.analyze_market_condition: the result and whether the second
\* model was asked.  `primary` and `fallback` are what the two models answer,
\* None when the call failed or the answer could not be parsed.
analyze_market_condition(ai, market_data, threshold, primary, fallback) ==
    IF ~ai.enabled
    THEN [result |-> [recommended_coin |-> None, confidence |-> 0,
                      risk_level |-> "MEDIUM"],
          primary_asked |-> FALSE, fallback_asked |-> FALSE]
    ELSE IF primary = None
    THEN [result |-> _get_fallback_recommendation(market_data),
          primary_asked |-> TRUE, fallback_asked |-> FALSE]
    ELSE LET detailed_analysis ==
                 [i \in 1..Min(3, Len(market_data)) |->
                     detailed_coin_analysis(market_data[i])]
             result == primary[1]
         IN IF result.confidence < threshold
            THEN LET fallback_result ==
                         _analyze_with_fallback_model(detailed_analysis, fallback)
                 IN [result |-> IF fallback_result.confidence > result.confidence
                                THEN fallback_result ELSE result,
                     primary_asked |-> TRUE, fallback_asked |-> TRUE]
            ELSE [result |-> result, primary_asked |-> TRUE,
                  fallback_asked |-> FALSE]


\* Faulty variant: the candidates left in the order of the scan.
sort_by_trade_amount_unsorted(s) == s

\* list.sort(key=trade_amount, reverse=True): stable, the larger amount first
RECURSIVE sort_by_trade_amount(_)
sort_by_trade_amount(s) ==
    IF s = << >> THEN << >>
    ELSE LET h == Head(s)
             rest == sort_by_trade_amount(Tail(s))
             k == Cardinality({i \in 1..Len(rest) : rest[i].trade_amount > h.trade_amount})
         IN SubSeq(rest, 1, k) \o <<h>> \o SubSeq(rest, k + 1, Len(rest))

\* Faulty variant: a spike is kept whatever its price and price change.
RECURSIVE scan_loop_unfiltered(_, _, _, _)
scan_loop_unfiltered(markets, view, settings, i) ==
    IF i > Len(markets) THEN << >>
    ELSE LET market == markets[i]
             rest == scan_loop_unfiltered(markets, view, settings, i + 1)
         IN IF view[market] = None THEN rest
            ELSE <<[market |-> market, current_price |-> 1, price_change |-> 0,
                    volume_ratio |-> settings.volume_spike_threshold,
                    trade_amount |-> view[market][1].trade_amount]>> \o rest

\* The scan loop: `view[market]` is None when no volume spike is seen (or the
\* look raised), else what the market shows: current_price, price_change and
\* trade_amount.
RECURSIVE scan_loop(_, _, _, _)
scan_loop(markets, view, settings, i) ==
    IF i > Len(markets) THEN << >>
    ELSE LET market == markets[i]
             rest == scan_loop(markets, view, settings, i + 1)
         IN IF view[market] = None THEN rest
            ELSE LET seen == view[market][1]
                 IN IF ~Falsy(seen.current_price) /\ seen.price_change # None
                       /\ Abs(seen.price_change[1]) < settings.price_change_threshold
                    THEN <<[market |-> market,
                            current_price |-> seen.current_price[1],
                            price_change |-> seen.price_change[1],
                            volume_ratio |-> settings.volume_spike_threshold,
                            trade_amount |-> seen.trade_amount]>> \o rest
                    ELSE rest

\* spike_candidates[:max(1, int(len(spike_candidates) * 0.7))]
top_candidates(spike_candidates) ==
    SubSeq(spike_candidates, 1, Max(1, (Len(spike_candidates) * 7) \div 10))

\* The candidate bought: the first by trade amount, unless the analyzer is on,
\* there is more than one candidate and its advice (None when the call raised)
\* names a candidate with enough confidence and a risk level other than HIGH.
best_candidate(spike_candidates, settings, ai, advice) ==
    IF ai.enabled /\ Len(spike_candidates) > 1 /\ advice # None
       /\ advice[1].recommended_coin # None
       /\ advice[1].confidence >= settings.ai_confidence_threshold
       /\ advice[1].risk_level # "HIGH"
       /\ \E i \in 1..Len(spike_candidates) :
             spike_candidates[i].market = MarketOf(advice[1].recommended_coin[1])
    THEN LET i == CHOOSE j \in 1..Len(spike_candidates) :
                     /\ spike_candidates[j].market = MarketOf(advice[1].recommended_coin[1])
                     /\ \A k \in 1..(j - 1) : spike_candidates[k].market
                                                # spike_candidates[j].market
         IN spike_candidates[i]
    ELSE spike_candidates[1]

\* The choice among the candidates found: they are ranked by trade amount,
\* the top of them is put to the analyzer when it is on and there is more
\* than one, and best_candidate decides.
select_candidate(found, settings, ai, primary, fallback) ==
    LET spike_candidates == sort_by_trade_amount(found)
        top == top_candidates(spike_candidates)
        ai_candidates == SubSeq(top, 1, Min(5, Len(top)))
        asked == ai.enabled /\ Len(spike_candidates) > 1
        analysis == analyze_market_condition(ai, ai_candidates,
                        settings.ai_confidence_threshold, primary, fallback)
    IN [spike_candidates |-> spike_candidates, ai_candidates |-> ai_candidates,
        asked |-> asked,
        analysis |-> IF asked THEN Some(analysis) ELSE None,
        best |-> best_candidate(spike_candidates, settings, ai,
                                IF asked THEN Some(analysis.result) ELSE None)]

\* The scan up to the choice: None when no candidate is found (the method
\* returns before the analyzer is reached), else the choice.
scan_decision(markets, view, settings, ai, primary, fallback) ==
    LET found == scan_loop(SubSeq(markets, 1, Min(20, Len(markets))), view, settings, 1)
    IN IF found = << >> THEN None
       ELSE Some(select_candidate(found, settings, ai, primary, fallback))

\* _scan_for_opportunities: the new manager state, the orders sent and the
\* candidates found.  `markets` is the answer of get_tradeable_markets, empty
\* when the query failed.
_scan_for_opportunities(rm, cap, now, settings, markets, view, ai, advice, resp, order_result, order_info) ==
    LET none == [rm |-> rm, orders |-> << >>, spike_candidates |-> << >>,
                 asked |-> FALSE]
    IN IF Cardinality(DOMAIN get_open_positions(rm.positions)) >= settings.max_positions
       THEN none
       ELSE IF markets = << >> THEN none
       ELSE LET found == scan_loop(SubSeq(markets, 1, Min(20, Len(markets))), view,
                                   settings, 1)
            IN IF found = << >> THEN none
               ELSE LET spike_candidates == sort_by_trade_amount(found)
                        best == best_candidate(spike_candidates, settings, ai, advice)
                        r == _execute_buy(rm, cap, now, best, settings, resp, ai,
                                          order_result, order_info)
                    IN [rm |-> r.rm, orders |-> r.orders,
                        spike_candidates |-> spike_candidates,
                        asked |-> ai.enabled /\ Len(spike_candidates) > 1]

\* ------------------------------------------------------------------ state
Init ==
    /\ positions = EmptyDict
    /\ positions_file = EmptyDict
    /\ daily_pnl_file = EmptyDict
    /\ trade_history = << >>
    /\ max_positions \in 1..MaxPos
    /\ daily_loss_limit \in Limits
    /\ today = 0
    /\ is_running = FALSE
    /\ is_paused = FALSE
    /\ pc = "idle"
    /\ ret = [op |-> "init"]

SetRM(rm) ==
    /\ positions' = rm.positions
    /\ positions_file' = rm.positions_file
    /\ daily_pnl_file' = rm.daily_pnl_file
    /\ trade_history' = rm.trade_history

\* ------------------------------------------- the ledger, called directly
\* While the bot's thread is not in its loop (pc = "idle") the manager's
\* methods and the bot's order handlers are called in any order.
AddPosition(m, e, q, inv) ==
    /\ pc = "idle"
    /\ Len(trade_history) < MaxTrades
    /\ LET r == add_position(RM, max_positions, today, m, e, q, inv)
       IN /\ SetRM(r.rm)
          /\ ret' = [op |-> "add_position", market |-> m, value |-> r.value]
    /\ UNCHANGED <<config, today, bot>>

ClosePosition(m, x) ==
    /\ pc = "idle"
    /\ Len(trade_history) < MaxTrades
    /\ LET r == close_position(RM, today, m, x)
       IN /\ SetRM(r.rm)
          /\ ret' = IF r.value = None
                    THEN [op |-> "close_position", market |-> m, value |-> None]
                    ELSE [op |-> "close_position", market |-> m, exit_price |-> x,
                          value |-> r.value]
    /\ UNCHANGED <<config, today, bot>>

Reconcile(resp, price) ==
    /\ pc = "idle"
    /\ SetRM(restore_positions_from_upbit(RM, today, resp, price))
    /\ ret' = [op |-> "restore_positions_from_upbit", resp |-> resp]
    /\ UNCHANGED <<config, today, bot>>

ExecuteBuy(candidate, settings, resp, ai, reply) ==
    /\ pc = "idle"
    /\ Len(trade_history) < MaxTrades
    /\ LET r == _execute_buy(RM, max_positions, today, candidate, settings, resp, ai,
                             reply[1], reply[2])
       IN /\ SetRM(r.rm)
          /\ ret' = [op |-> "_execute_buy", market |-> candidate.market,
                     orders |-> r.orders,
                     order_state |-> OrderState(reply[1], reply[2])]
    /\ UNCHANGED <<config, today, bot>>

ExecuteSell(m, current_price, reply) ==
    /\ pc = "idle"
    /\ Len(trade_history) < MaxTrades
    /\ LET r == _execute_sell(RM, today, m, current_price, reply[1], reply[2])
       IN /\ SetRM(r.rm)
          /\ ret' = [op |-> "_execute_sell", market |-> m, orders |-> r.orders,
                     order_state |-> OrderState(reply[1], reply[2])]
    /\ UNCHANGED <<config, today, bot>>

\* The process is restarted: a new RiskManager restores from positions.json
\* and a new CoinButler is constructed.
Restart ==
    /\ positions' = _restore_positions_from_file(positions_file)
    /\ is_running' = FALSE
    /\ is_paused' = FALSE
    /\ pc' = "idle"
    /\ ret' = [op |-> "restart"]
    /\ UNCHANGED <<positions_file, daily_pnl_file, trade_history, config, today>>

DayPasses ==
    /\ today < MaxDay
    /\ today' = today + 1
    /\ ret' = [op |-> "midnight"]
    /\ UNCHANGED <<ledger, config, bot>>

\* ---------------------------------------------------------------- the bot
\* start(): flags, _restore_existing_positions, the balance log, then the loop.
\* resp2 answers the get_krw_balance of line 966, which start() does not guard.
Start(resp, price, resp2) ==
    /\ pc = "idle"
    /\ ~is_running
    /\ SetRM(restore_positions_from_upbit(RM, today, resp, price))
    /\ is_paused' = FALSE
    /\ IF get_krw_balance(resp2).raised
       THEN is_running' = FALSE /\ pc' = "idle"
       ELSE is_running' = TRUE /\ pc' = "loop"
    /\ ret' = [op |-> "start", resp |-> resp]
    /\ UNCHANGED <<config, today>>

\* One pass of `while self.is_running` when the flag is down: the loop ends
\* and the finally clause calls stop().
TickExit ==
    /\ pc = "loop"
    /\ ~is_running
    /\ pc' = "idle"
    /\ is_running' = FALSE
    /\ ret' = [op |-> "_main_loop", branch |-> "exit", orders |-> << >>]
    /\ UNCHANGED <<ledger, config, today, is_paused>>

\* Faulty variant: a pass while paused that lifts the pause.
TickPaused_unpause ==
    /\ pc = "loop"
    /\ is_running
    /\ is_paused
    /\ is_paused' = FALSE
    /\ ret' = [op |-> "_main_loop", branch |-> "paused", orders |-> << >>]
    /\ UNCHANGED <<ledger, config, today, is_running, pc>>

\* Faulty variant: a pass while paused that skips the pause test and goes on
\* to the daily-limit check.
TickPaused_nocheck ==
    /\ pc = "loop"
    /\ is_running
    /\ is_paused
    /\ LET breached == call_check_daily_loss_limit(RM, daily_loss_limit, today,
                                                   <<daily_loss_limit>>)
       IN /\ IF breached.raised
             THEN is_running' = FALSE /\ pc' = "idle"
             ELSE UNCHANGED <<is_running, pc>>
          /\ ret' = [op |-> "_main_loop", branch |-> "running",
                     limit |-> daily_loss_limit, check |-> breached, orders |-> << >>]
    /\ UNCHANGED <<ledger, config, today, is_paused>>

\* Faulty variant: a pass while paused that does not test the running flag.
TickPaused_deaf ==
    /\ pc = "loop"
    /\ is_paused
    /\ ret' = [op |-> "_main_loop", branch |-> "paused", orders |-> << >>]
    /\ UNCHANGED <<ledger, config, today, bot>>

\* One pass while paused: sleep and continue.
TickPaused ==
    /\ pc = "loop"
    /\ is_running
    /\ is_paused
    /\ ret' = [op |-> "_main_loop", branch |-> "paused", orders |-> << >>]
    /\ UNCHANGED <<ledger, config, today, bot>>

\* One pass while running: the daily-limit check is called with the limit of
\* the settings as an argument.  TypeError leaves the loop through
\* `except Exception`, and the finally clause calls stop().
TickRunning(settings) ==
    /\ pc = "loop"
    /\ is_running
    /\ ~is_paused
    /\ LET breached == call_check_daily_loss_limit(RM, daily_loss_limit, today,
                                                   <<settings.daily_loss_limit>>)
       IN /\ IF breached.raised
             THEN is_running' = FALSE /\ is_paused' = is_paused /\ pc' = "idle"
             ELSE IF breached.value
             THEN is_paused' = TRUE /\ UNCHANGED <<is_running, pc>>
             ELSE pc' = "manage" /\ UNCHANGED <<is_running, is_paused>>
          /\ ret' = [op |-> "_main_loop", branch |-> "running",
                     limit |-> settings.daily_loss_limit,
                     check |-> breached, orders |-> << >>]
    /\ UNCHANGED <<ledger, config, today>>

\* stop(), pause(), resume(): called from outside while the loop runs
Stop ==
    /\ pc = "loop"
    /\ is_running' = FALSE
    /\ ret' = [op |-> "stop"]
    /\ UNCHANGED <<ledger, config, today, is_paused, pc>>

Pause ==
    /\ pc = "loop"
    /\ is_paused' = TRUE
    /\ ret' = [op |-> "pause"]
    /\ UNCHANGED <<ledger, config, today, is_running, pc>>

Resume ==
    /\ pc = "loop"
    /\ is_paused' = FALSE
    /\ ret' = [op |-> "resume"]
    /\ UNCHANGED <<ledger, config, today, is_running, pc>>

\* The balance of a currency in a response (0 when it lists none)
\* One pass of the body of _main_loop, in two steps.  The first is
\* _manage_positions under the settings and the analyzer of this pass; the
\* balance report that follows it only reads.
ManagePositions(settings, ai, price, replies, order, swap_due, in) ==
    /\ pc = "idle"
    /\ LET r == _manage_positions(RM, max_positions, today, settings, price, replies,
                                  order, ai, swap_due, in)
       IN /\ Len(r.rm.trade_history) <= MaxTrades
          /\ SetRM(r.rm)
          /\ ret' = [op |-> "_manage_positions", settings |-> settings, ai |-> ai,
                     exit_orders |-> r.exit_orders, swap_orders |-> r.swap_orders,
                     raised |-> r.raised, swap_ready |-> ai.enabled /\ swap_due]
    /\ pc' = "scan"
    /\ UNCHANGED <<config, today, is_running, is_paused>>

\* The second step: _scan_for_opportunities when the scan interval has passed
\* (scan_due), then the end of the pass.
ScanForOpportunities(scan_due, markets, view, advice, resp, reply) ==
    /\ pc = "scan"
    /\ LET r == IF scan_due
                THEN _scan_for_opportunities(RM, max_positions, today, ret.settings,
                         markets, view, ret.ai, advice, resp, reply[1], reply[2])
                ELSE [rm |-> RM, orders |-> << >>, spike_candidates |-> << >>,
                      asked |-> FALSE]
       IN /\ Len(r.rm.trade_history) <= MaxTrades
          /\ SetRM(r.rm)
          /\ ret' = [op |-> "_main_loop", exit_orders |-> ret.exit_orders,
                     swap_orders |-> ret.swap_orders, raised |-> ret.raised,
                     swap_ready |-> ret.swap_ready, scan_orders |-> r.orders]
    /\ pc' = "idle"
    /\ UNCHANGED <<config, today, is_running, is_paused>>

\* The scan and the choice of the candidate, applied to the inputs drawn.
SelectCandidate ==
    /\ pc = "idle"
    /\ ret.op = "scan_input"
    /\ ret' = [op |-> "select_candidate", settings |-> ret.settings, ai |-> ret.ai,
               primary |-> ret.primary, fallback |-> ret.fallback,
               decision |-> scan_decision(ret.markets, ret.view, ret.settings, ret.ai,
                                          ret.primary, ret.fallback)]
    /\ UNCHANGED <<ledger, config, today, bot>>

\* Midnight falls between the two steps of a pass.
MidnightInPass ==
    /\ pc = "scan"
    /\ today < MaxDay
    /\ today' = today + 1
    /\ UNCHANGED <<ledger, config, bot, ret>>

BalanceOf(resp, c) ==
    IF resp.kind # "ok" THEN 0
    ELSE LET hits == {i \in 1..Len(resp.body) : resp.body[i].currency = c}
         IN IF hits = {} THEN 0 ELSE resp.body[CHOOSE i \in hits : TRUE].balance
Held(resp) == {MarketOf(c) : c \in {x \in Currencies : BalanceOf(resp, x) > 0}}
\* The price is asked only for the markets of the balances held.
PriceMapsFor(resp) == {price \in PriceMaps : \A m \in Markets \ Held(resp) : price[m] = None}

\* profit_rate and loss_rate of the settings, in hundredths (0.03 is 3); the
\* settings are not validated, so 0 is among them.
ProfitRates == {0, 3, 100}
LossRates == {0 - 50, 0 - 2, 0}

Candidates == {[market |-> m, current_price |-> p] : m \in Markets, p \in Prices}
BuyResponses ==
    {[kind |-> "error"], [kind |-> "malformed", body |-> <<NotADict>>]}
    \cup {[kind |-> "ok", body |-> AccountsList(k, [c \in Currencies |-> 0])] :
            k \in KrwBalances}
\* The allocation call is made only with a balance that reaches the minimum.
BuyInputs(settings) ==
    {<<resp, ai>> \in BuyResponses \X AiOutcomes :
        \/ ai = AiDisabled
        \/ /\ ~get_krw_balance(resp).raised
           /\ get_krw_balance(resp).value >= settings.min_balance_for_buy}
StartResponses == {r \in BuyResponses : r.kind # "error"}
InvestmentAmounts(e, q) == {e * q, e * q + 1}

\* The RiskManager driven through its own methods.
Next ==
    \/ \E m \in Markets, e \in Prices, q \in Quantities :
          \E inv \in InvestmentAmounts(e, q) : AddPosition(m, e, q, inv)
    \/ \E m \in Markets, x \in Prices : ClosePosition(m, x)
    \/ \E resp \in Responses : \E price \in PriceMapsFor(resp) : Reconcile(resp, price)
    \/ Restart
    \/ DayPasses

Spec == Init /\ [][Next]_vars

\* The bot's order handlers driven directly.
NextHandlers ==
    \/ \E c \in Candidates, s \in SettingsSet, reply \in OrderReplies :
          \E in \in BuyInputs(s) : ExecuteBuy(c, s, in[1], in[2], reply)
    \/ \E m \in Markets, p \in Prices, reply \in OrderReplies :
          ExecuteSell(m, p, reply)
    \/ Restart
    \/ DayPasses

SpecHandlers == Init /\ [][NextHandlers]_vars

\* The bot is constructed over the files an earlier session left behind: that
\* session reconciled with the exchange, closed at most one position and ended.
EarlierSessions ==
    LET rm0 == [positions |-> EmptyDict, positions_file |-> EmptyDict,
                daily_pnl_file |-> EmptyDict, trade_history |-> << >>]
    IN {close_position(restore_positions_from_upbit(rm0, 0, resp, price), 0, m, x).rm :
            resp \in Responses, price \in PriceMaps, m \in Markets, x \in Prices}

InitBot ==
    /\ \E rm \in EarlierSessions :
          /\ positions = _restore_positions_from_file(rm.positions_file)
          /\ positions_file = rm.positions_file
          /\ daily_pnl_file = rm.daily_pnl_file
          /\ trade_history = rm.trade_history
    /\ max_positions \in 1..MaxPos
    /\ daily_loss_limit \in Limits
    /\ today = 0
    /\ is_running = FALSE
    /\ is_paused = FALSE
    /\ pc = "idle"
    /\ ret = [op |-> "init"]

\* The bot from start(): its loop, the calls made from outside while the loop
\* runs, and the passing of days.
NextBot ==
    \/ \E resp \in Responses, resp2 \in StartResponses :
          \E price \in PriceMapsFor(resp) : Start(resp, price, resp2)
    \/ TickExit
    \/ TickPaused
    \/ \E s \in SettingsSet : TickRunning(s)
    \/ Stop
    \/ Pause
    \/ Resume
    \/ DayPasses

SpecBot == InitBot /\ [][NextBot]_vars

\* The loop thread is never starved: once the running flag is down, the
\* `while self.is_running` test is reached (after the sleep at the latest).
SpecBotLive == SpecBot /\ WF_vars(TickExit)

\* The settings of a pass (get_current_settings, read once per pass); the loss
\* rate -100 keeps a position that stands at -50%.
TickSettings ==
    {[min_balance_for_buy |-> 30, investment_amount |-> 30, daily_loss_limit |-> l,
      max_positions |-> c, profit_rate |-> 100, loss_rate |-> lr,
      price_change_threshold |-> 5, volume_spike_threshold |-> 2,
      ai_confidence_threshold |-> 7] :
        l \in Limits, c \in 1..MaxPos, lr \in {0 - 100, 0 - 2}}
TickAi == {AiDisabled, [enabled |-> TRUE, ok |-> TRUE, amount |-> 5]}
TickReplies == {<<None, None>>, <<Some("uuid"), OrderInfo("done", 1, None)>>}
\* The prices and order answers of the markets held; the others are not asked.
TickPrices(held) == {price \in PriceMaps : \A m \in Markets \ held : price[m] = None}
\* An order is answered only for a market whose position is to be sold.
TickReplyMaps(rm, settings, price) ==
    {replies \in [Markets -> TickReplies] :
        \A m \in Markets :
            (Falsy(price[m])
             \/ ~should_sell(rm, m, price[m][1], settings.profit_rate,
                             settings.loss_rate)[1])
                => replies[m] = <<None, None>>}
\* The orders in which a dict of the markets held can be iterated.
Orderings(held) ==
    {o \in UNION {[1..n -> held] : n \in {Cardinality(held)}} :
        \A i, j \in 1..Len(o) : i # j => o[i] # o[j]}
\* What the scan sees of a market: nothing, or a spike with its price, its
\* price change in percent and its trade amount.
Seen(p, c, t) == Some([current_price |-> p, price_change |-> c, trade_amount |-> t])
NoView == [m \in Markets |-> None]
ScanViews ==
    {[m \in Markets |-> IF m = MarketOf("A") THEN a ELSE b] :
        a \in {None, Seen(Some(1), Some(0 - 4), 3), Seen(Some(1), Some(5), 3)},
        b \in {None, Seen(Some(1), Some(1), 2)}} \ {NoView}
\* The analyzer is asked only when it is on and the scan found two candidates.
Advices(settings, ai, view) ==
    IF ai.enabled /\ Len(scan_loop(TradeableMarkets, view, settings, 1)) > 1
    THEN {None, Some([recommended_coin |-> Some("B"), confidence |-> 8,
                      risk_level |-> "LOW"])}
    ELSE {None}
ScanResponses == {r \in BuyResponses : r.kind = "ok"}

\* What the swap analysis would be answered; it is read only after the name
\* lookup of its first statement, so one value stands for all in a pass.
NoSwapInput ==
    [view |-> NoView, answer |-> None, resp |-> [kind |-> "error"],
     sell_reply |-> <<None, None>>, buy_reply |-> <<None, None>>]

\* The answers of the analyzer to a swap question: None when the call failed,
\* else should_swap, the two markets and (when present) a confidence.
SwapAnswers ==
    {None, Some([should_swap |-> FALSE, sell_market |-> None, buy_market |-> None,
                 confidence |-> None])}
    \cup {Some([should_swap |-> TRUE, sell_market |-> sm, buy_market |-> Some(bm),
                confidence |-> c]) :
            sm \in {None} \cup {Some(m) : m \in Markets}, bm \in Markets,
            c \in {None, Some(8)}}
\* What the opportunity loop sees: a spike on neither, either or both markets.
SwapViews ==
    {[m \in Markets |-> IF m \in ms THEN Seen(Some(1), Some(1), 2) ELSE None] :
        ms \in SUBSET Markets}
SwapInputs ==
    {[view |-> v, answer |-> a, resp |-> r, sell_reply |-> sr, buy_reply |-> br] :
        v \in SwapViews, a \in SwapAnswers, r \in ScanResponses,
        sr \in TickReplies, br \in TickReplies}
\* The lists _manage_positions is written to collect: open positions with the
\* price read for them, in the order of the dict.
LosingLists(ps) ==
    {<<[market |-> m, current_price |-> p]>> : m \in OpenMarkets(ps), p \in Prices}
    \cup {<<[market |-> MarketOf("A"), current_price |-> p],
            [market |-> MarketOf("B"), current_price |-> q]>> :
            p \in {x \in Prices : MarketOf("A") \in OpenMarkets(ps)},
            q \in {x \in Prices : MarketOf("B") \in OpenMarkets(ps)}}
SwapSettings == {s \in TickSettings : s.loss_rate = 0 - 100 /\ s.max_positions = MaxPos}

\* The swap timer is read only when the analyzer is on.
SwapDue(ai) == IF ai.enabled THEN BOOLEAN ELSE {FALSE}

\* The body of the loop driven pass after pass, over the ledger that start()
\* reconciled with the exchange.
ReconciledSessions ==
    LET rm0 == [positions |-> EmptyDict, positions_file |-> EmptyDict,
                daily_pnl_file |-> EmptyDict, trade_history |-> << >>]
    IN {restore_positions_from_upbit(rm0, 0, resp, price) :
            resp \in Responses, price \in PriceMaps}

InitTick ==
    /\ \E rm \in ReconciledSessions :
          /\ positions = _restore_positions_from_file(rm.positions_file)
          /\ positions_file = rm.positions_file
          /\ daily_pnl_file = rm.daily_pnl_file
          /\ trade_history = rm.trade_history
    /\ max_positions \in 1..MaxPos
    /\ daily_loss_limit \in Limits
    /\ today = 0
    /\ is_running = TRUE
    /\ is_paused = FALSE
    /\ pc = "idle"
    /\ ret = [op |-> "init"]

NextTick ==
    \/ /\ pc = "idle"
       /\ \E settings \in TickSettings, ai \in TickAi :
          \E swap_due \in SwapDue(ai), price \in TickPrices(OpenMarkets(positions)),
             order \in Orderings(OpenMarkets(positions)) :
             \E replies \in TickReplyMaps(RM, settings, price) :
                ManagePositions(settings, ai, price, replies, order, swap_due, NoSwapInput)
    \/ /\ pc = "scan"
       /\ \E view \in ScanViews, resp \in ScanResponses, reply \in TickReplies :
          \E advice \in Advices(ret.settings, ret.ai, view) :
             ScanForOpportunities(TRUE, TradeableMarkets, view, advice, resp, reply)
    \/ \E scan_due \in BOOLEAN :
          ScanForOpportunities(scan_due, << >>, NoView, None, [kind |-> "error"],
                               <<None, None>>)
    \/ pc = "idle" /\ DayPasses
    \/ MidnightInPass

SpecTick == InitTick /\ [][NextTick]_vars

\* What the scan sees of three markets and what the two models answer.
ScanMarkets == <<MarketOf("A"), MarketOf("B"), MarketOf("C")>>
DecideViews ==
    [{ScanMarkets[i] : i \in 1..Len(ScanMarkets)} ->
        {None, Seen(Some(1), Some(1), 2), Seen(Some(1), Some(4), 3),
         Seen(Some(1), Some(1), 1000)}]
PrimaryAnswers ==
    {None}
    \cup {Some([recommended_coin |-> rc, confidence |-> k, risk_level |-> r]) :
            rc \in {None} \cup {Some(c) : c \in ScanCurrencies}, k \in {5, 7, 8},
            r \in {"LOW", "HIGH"}}
FallbackAnswers ==
    {None}
    \cup {Some([recommended_coin |-> Some(c), confidence |-> k, risk_level |-> "LOW"]) :
            c \in ScanCurrencies, k \in {4, 8}}
\* The models are asked only when the analyzer is on.
DecideInputs ==
    {[op |-> "scan_input", settings |-> s, ai |-> ai, markets |-> ScanMarkets,
      view |-> v, primary |-> p, fallback |-> f] :
        s \in SwapSettings, ai \in {AiDisabled}, v \in DecideViews, p \in {None},
        f \in {None}}
    \cup {[op |-> "scan_input", settings |-> s, ai |-> ai, markets |-> ScanMarkets,
            view |-> v, primary |-> p, fallback |-> f] :
            s \in SwapSettings, ai \in TickAi \ {AiDisabled}, v \in DecideViews,
            p \in PrimaryAnswers, f \in FallbackAnswers}

\* The choice of the candidate as a function of what the scan sees and the
\* models answer.
InitDecide ==
    /\ positions = EmptyDict
    /\ positions_file = EmptyDict
    /\ daily_pnl_file = EmptyDict
    /\ trade_history = << >>
    /\ max_positions = MaxPos
    /\ daily_loss_limit = 0 - 1
    /\ today = 0
    /\ is_running = TRUE
    /\ is_paused = FALSE
    /\ pc = "idle"
    /\ ret \in DecideInputs

NextDecide == SelectCandidate

SpecDecide == InitDecide /\ [][NextDecide]_vars

\* ------------------------------------------- startup over a damaged store
\* What is wrong with positions.json when the process starts: nothing (None),
\* the whole file (json.load raises) or one record (a key such as
\* entry_price is missing, so building its Position raises KeyError).
FileDamages(file) ==
    {None, [kind |-> "file"]} \cup {[kind |-> "record", market |-> m] : m \in DOMAIN file}

\* The loop of _restore_positions_from_file over the records in file order:
\* the exception of a damaged record ends the loop and is logged, and what
\* was put into self.positions before it stays there.
RECURSIVE restore_file_loop(_, _, _, _, _)
restore_file_loop(file, order, i, damage, restored) ==
    IF i > Len(order) THEN restored
    ELSE LET market == order[i]
             pos_data == file[market]
         IN IF pos_data.status # "open"
            THEN restore_file_loop(file, order, i + 1, damage, restored)
            ELSE IF damage # None /\ damage.kind = "record" /\ damage.market = market
            THEN restored
            ELSE restore_file_loop(file, order, i + 1, damage,
                     DictPut(restored, market,
                             Position(pos_data.market, pos_data.entry_price,
                                      pos_data.quantity,
                                      fromisoformat(pos_data.entry_time),
                                      pos_data.investment_amount)))

\* RiskManager.__init__: self.positions = {} and then the restore.
RiskManager_init(file, order, damage) ==
    IF damage # None /\ damage.kind = "file" THEN EmptyDict
    ELSE restore_file_loop(file, order, 1, damage, EmptyDict)

\* An earlier session that bought KRW-A, sold it and bought it again.
TradedSessions ==
    LET rm0 == [positions |-> EmptyDict, positions_file |-> EmptyDict,
                daily_pnl_file |-> EmptyDict, trade_history |-> << >>]
        m == MarketOf("A")
    IN {add_position(close_position(add_position(rm0, MaxPos, 0, m, p, 1, p).rm,
                                    0, m, x).rm,
                     MaxPos, 0, m, q, 1, q).rm : p \in Prices, x \in Prices, q \in Prices}

\* The bot is constructed over the files of an earlier session (which ended
\* holding one or two positions, or after a close, or after buying a market
\* a second time), of which positions.json may have been damaged since.
InitStartup ==
    /\ \E rm \in EarlierSessions \cup ReconciledSessions \cup TradedSessions :
          /\ positions_file = rm.positions_file
          /\ daily_pnl_file = rm.daily_pnl_file
          /\ trade_history = rm.trade_history
          /\ \E order \in Orderings(DOMAIN rm.positions_file),
                damage \in FileDamages(rm.positions_file) :
                /\ positions = RiskManager_init(rm.positions_file, order, damage)
                /\ ret = [op |-> "__init__", order |-> order, damage |-> damage]
    /\ max_positions \in 1..MaxPos
    /\ daily_loss_limit \in Limits
    /\ today = 0
    /\ is_running = FALSE
    /\ is_paused = FALSE
    /\ pc = "idle"

\* The constructed bot is started (on whatever day that is).
NextStartup ==
    \/ \E resp \in Responses, resp2 \in StartResponses :
          \E price \in PriceMapsFor(resp) : Start(resp, price, resp2)
    \/ ret.op # "start" /\ today < MaxDay /\ today' = today + 1
          /\ UNCHANGED <<ledger, config, bot, ret>>

SpecStartup == InitStartup /\ [][NextStartup]_vars

\* ================================================================ properties
\* ---- C1 (orchestrator, SpecBot)
\* C1: a pass of the main loop that starts running and unpaused with today's
\* realized P&L at or below the configured daily loss limit pauses the bot
\* (it stays running, becomes paused) and sends no order.
C1_BreachPausesBot ==
    [][(/\ pc = "loop" /\ is_running /\ ~is_paused
        /\ ret'.op = "_main_loop"
        /\ get_daily_pnl(daily_pnl_file, today) <= ret'.limit)
       => (is_running' /\ is_paused' /\ ret'.orders = << >>)]_vars

\* ---- C2 (ledger, Spec)
\* The open positions the ledger knows of: the index in memory and the
\* records of positions.json as a restart would read them.
OpenRecords ==
    {positions[m] : m \in OpenMarkets(positions)}
    \cup {_restore_positions_from_file(positions_file)[m] :
            m \in DOMAIN _restore_positions_from_file(positions_file)}

\* C2: at most one open position exists per instrument, across the index in
\* memory and the persisted store, and each is filed under its own market.
C2_OneOpenPerMarket ==
    /\ \A m \in Markets : Cardinality({p \in OpenRecords : p.market = m}) <= 1
    /\ \A m \in OpenMarkets(positions) : positions[m].market = m
    /\ \A m \in DOMAIN positions_file : positions_file[m].market = m

\* An open for a market that is already open (with room under the cap) was
\* turned down, and the one position is both in memory and in the store.
C2_Witness ==
    /\ ret.op = "add_position" /\ ret.value = FALSE
    /\ ret.market \in OpenMarkets(positions)
    /\ ret.market \in DOMAIN positions_file
    /\ Cardinality(OpenMarkets(positions)) < max_positions

\* ---- C3 (order handlers, SpecHandlers)
\* C3: a handler changes the ledger (index, daily P&L, store, trade log) only
\* when it sent an order and the exchange reported it done; with the order
\* rejected, unanswered, waiting or cancelled everything is left as it was.
C3_LedgerOnlyAfterDone ==
    [][ret'.op \in {"_execute_buy", "_execute_sell"}
       => /\ ret'.order_state # "done" => UNCHANGED ledger
          /\ ledger' # ledger => ret'.order_state = "done" /\ Len(ret'.orders) = 1]_vars

\* A sell order went out for an open position, came back not done, and the
\* position is still open.
C3_Witness ==
    /\ ret.op = "_execute_sell"
    /\ ret.order_state \in {"rejected", "unknown", "wait", "cancel"}
    /\ Len(ret.orders) = 1
    /\ ret.market \in OpenMarkets(positions)
    /\ ret.market \in DOMAIN positions_file

\* ---- C4 (reconciliation, Spec)
\* C4: when the exchange query of a reconciliation fails, the index restored
\* from the store is kept as it was.
C4_FailedQueryKeepsIndex ==
    [][(ret'.op = "restore_positions_from_upbit" /\ ret'.resp.kind # "ok")
       => UNCHANGED <<positions, positions_file>>]_vars

\* ---- C5 (reconciliation, Spec)
\* C5: after a reconciliation that obtained the balances, the open positions
\* are exactly the non-cash balances above zero, each with the balance as its
\* quantity (a position found only in the store is gone).
C5_IndexMirrorsBalances ==
    (ret.op = "restore_positions_from_upbit" /\ ret.resp.kind = "ok")
    => /\ OpenMarkets(positions) = Held(ret.resp)
       /\ \A c \in Currencies :
            BalanceOf(ret.resp, c) > 0
            => /\ MarketOf(c) \in OpenMarkets(positions)
               /\ positions[MarketOf(c)].quantity = BalanceOf(ret.resp, c)

C7_RejectedOpenChangesNothing ==
    [][ret'.op = "add_position"
       => /\ (\/ ret'.market \in OpenMarkets(positions)
              \/ Cardinality(OpenMarkets(positions)) = max_positions)
             => ret'.value = FALSE
          /\ ret'.value = FALSE => UNCHANGED ledger]_vars

\* An open for a market not held was turned down because the cap was reached.
C7_Witness ==
    /\ ret.op = "add_position" /\ ret.value = FALSE
    /\ ret.market \notin OpenMarkets(positions)
    /\ Cardinality(OpenMarkets(positions)) = max_positions

\* ---- C8 (ledger, Spec)
\* C8: closing an open position at exit price x returns
\* quantity * x - investment_amount, and the closed position carries exactly
\* that value as its profit_loss (with x as its exit price).
C8_ClosePnl ==
    (ret.op = "close_position" /\ ret.value # None)
    => LET p == positions[ret.market]
       IN /\ p.status = "closed"
          /\ p.exit_price = Some(ret.exit_price)
          /\ ret.value = Some(p.quantity * ret.exit_price - p.investment_amount)
          /\ p.profit_loss = ret.value

\* A position whose cost differs from quantity * entry price was closed at a loss.
C8_Witness ==
    /\ ret.op = "close_position" /\ ret.value # None
    /\ ret.value[1] < 0
    /\ positions[ret.market].investment_amount
         # positions[ret.market].quantity * positions[ret.market].entry_price

\* ---- C9 (ledger, Spec)
\* The realized P&L of the closes the trade log dates on `day`.
RECURSIVE SumClosed(_, _, _)
SumClosed(history, day, i) ==
    IF i = 0 THEN 0
    ELSE SumClosed(history, day, i - 1)
         + (IF history[i].action = "SELL" /\ history[i].timestamp = isoformat(day)
            THEN history[i].profit_loss ELSE 0)

C10_BreachedIffAtOrBelowArgument ==
    \A l \in Limits :
        call_check_daily_loss_limit(RM, daily_loss_limit, today, <<l>>)
            = Return(get_daily_pnl(daily_pnl_file, today) <= l)

\* ---- C11 (orchestrator, SpecBot)
\* C11: a paused bot (running and paused) becomes running and unpaused only
\* by a call of resume(): no pass of the loop and no change of date does it.
C11_OnlyResumeUnpauses ==
    [][(is_running /\ is_paused /\ is_running' /\ ~is_paused')
       => ret'.op = "resume"]_vars

\* The bot is still paused after a paused pass of the loop on a later day.
C11_Witness ==
    /\ is_running /\ is_paused
    /\ ret.op = "_main_loop" /\ ret.branch = "paused"
    /\ today > 0

\* ---- C12 (orchestrator, SpecBot)
\* C12: a pass of the loop made while the bot is paused takes the paused
\* branch only: it sends no order, changes nothing in the ledger and leaves
\* the running and paused flags as they were.
C12_PausedTickDoesNothing ==
    [][(is_running /\ is_paused /\ ret'.op = "_main_loop")
       => /\ ret'.branch = "paused"
          /\ ret'.orders = << >>
          /\ UNCHANGED ledger
          /\ UNCHANGED <<is_running, is_paused>>]_vars

\* A paused pass was made while a position was open that a running pass
\* would have had to manage.
C12_Witness ==
    /\ is_running /\ is_paused
    /\ ret.op = "_main_loop" /\ ret.branch = "paused"
    /\ OpenMarkets(positions) # {}

\* ---- C13 (orchestrator, SpecBot)
\* C13: a pass of the loop made while running and unpaused, whatever the
\* exchange and the AI service answer during it, leaves the bot running (it
\* goes on to the sleep and the next pass; it is never moved to stopped).
C13_TickKeepsRunning ==
    [][(pc = "loop" /\ is_running /\ ~is_paused /\ ret'.op = "_main_loop")
       => (is_running' /\ pc' # "idle")]_vars

C15_CloseWithoutOpenIsNoOp ==
    [][ret'.op = "close_position"
       => /\ ret'.market \notin OpenMarkets(positions) => ret'.value = None
          /\ ret'.value = None => UNCHANGED ledger]_vars

\* A position closed today with a P&L other than 0 was closed a second time.
C15_Witness ==
    /\ ret.op = "close_position" /\ ret.value = None
    /\ ret.market \in DOMAIN positions
    /\ positions[ret.market].status = "closed"
    /\ positions[ret.market].exit_time = Some(today)
    /\ positions[ret.market].profit_loss # Some(0)
    /\ get_daily_pnl(daily_pnl_file, today) = positions[ret.market].profit_loss[1]

C17_CanOpenIffBelowCap ==
    can_open_position(positions, max_positions)
    <=> Cardinality({m \in Markets :
                        m \in DOMAIN positions /\ positions[m].status = "open"})
            < max_positions

\* The cap was reached, one position was then closed, and a new one may be
\* opened although the index still holds as many positions as the cap.
C17_Witness ==
    /\ ret.op = "close_position" /\ ret.value # None
    /\ Cardinality(DOMAIN positions) = max_positions
    /\ Cardinality(OpenMarkets(positions)) = max_positions - 1
    /\ can_open_position(positions, max_positions)

\* ---- C18 (risk guardrail, Spec)
\* C18: for an open position with P&L rate r = (quantity * price - investment)
\* / investment, should_sell answers take-profit iff r >= profit_rate,
\* otherwise stop-loss iff r <= loss_rate, otherwise no sale; both thresholds
\* are inclusive, and take-profit wins when both hold.  For a market with no
\* open position it answers no sale.
C18_ShouldSellThresholds ==
    \A m \in Markets, x \in Prices, pt \in ProfitRates, sl \in LossRates :
        LET answer == should_sell(RM, m, x, pt, sl)
        IN IF m \notin OpenMarkets(positions)
           THEN answer = <<FALSE, "">>
           ELSE LET q == positions[m].quantity
                    inv == positions[m].investment_amount
                    profit == 100 * (q * x - inv) >= pt * inv
                    loss == 100 * (q * x - inv) <= sl * inv
                IN /\ profit => answer = <<TRUE, "take-profit">>
                   /\ (~profit /\ loss) => answer = <<TRUE, "stop-loss">>
                   /\ (~profit /\ ~loss) => answer = <<FALSE, "">>

\* One open position stands exactly at a +100% target at the top price and
\* is sold for take-profit there, while at the lower price it stands between
\* the thresholds and is kept; the other market has no open position.
C18_Witness ==
    \E m \in OpenMarkets(positions) :
        /\ 100 * calculate_current_pnl(positions[m], MaxPrice)
             = 100 * positions[m].investment_amount
        /\ should_sell(RM, m, MaxPrice, 100, 0 - 2) = <<TRUE, "take-profit">>
        /\ should_sell(RM, m, 1, 100, 0 - 2) = <<FALSE, "">>
        /\ \E n \in Markets \ OpenMarkets(positions) :
              should_sell(RM, n, 1, 3, 0 - 2) = <<FALSE, "">>

\* ---- C19 (order handlers, SpecHandlers)
\* C19: a sell order for a market goes out only while the ledger holds an open
\* position for that market (so never before its buy was registered), and it
\* is for the quantity of that position; the buy handler sends no sell order.
C19_SellOnlyWhileOpen ==
    [][ret'.op \in {"_execute_buy", "_execute_sell"}
       => \A i \in 1..Len(ret'.orders) :
             ret'.orders[i].side = "ask"
             => /\ ret'.op = "_execute_sell"
                /\ ret'.orders[i].market = ret'.market
                /\ ret'.market \in OpenMarkets(positions)
                /\ ret'.orders[i].volume = positions[ret'.market].quantity]_vars

\* A sell was asked for a market that has no open position while another
\* market has one, with an exchange that would have filled it: no order went out.
C19_Witness ==
    /\ ret.op = "_execute_sell" /\ ret.order_state = "done"
    /\ ret.orders = << >>
    /\ ret.market \notin OpenMarkets(positions)
    /\ OpenMarkets(positions) # {}

\* C20: no pass of the loop both sends the orders of a position swap and
\* sends a buy order from the market scan.
C20_SwapAndScanBuyExclude ==
    ret.op = "_main_loop" => ~(ret.swap_orders # << >> /\ ret.scan_orders # << >>)
\* A pass in which a position stood below -5% with the analyzer on and the
\* swap timer run out, and in which the scan then bought.
C20_Witness ==
    /\ ret.op = "_main_loop"
    /\ ret.raised # {}
    /\ ret.swap_ready
    /\ ret.swap_orders = << >>
    /\ \E i \in 1..Len(ret.scan_orders) : ret.scan_orders[i].side = "bid"

\* The swap the analyzer's answer describes is one to accept: the analyzer is
\* on, it answered should_swap with a confidence that meets the threshold, its
\* sell market is one of the losing positions and its buy market one of the
\* opportunities put to it.
SwapAccepted(rm, settings, ai, losing_positions, in) ==
    LET opportunities == opportunity_loop(rm, TradeableMarkets, in.view, 1)
    IN /\ ai.enabled
       /\ in.answer # None
       /\ in.answer[1].should_swap
       /\ in.answer[1].sell_market # None
       /\ first_of(losing_positions, in.answer[1].sell_market[1]) # None
       /\ first_of(opportunities, in.answer[1].buy_market[1]) # None
       /\ in.answer[1].confidence # None
       /\ in.answer[1].confidence[1] >= settings.ai_confidence_threshold
SwapIsSellThenBuy(orders, answer) ==
    /\ Len(orders) = 2
    /\ orders[1].side = "ask" /\ orders[1].market = answer.sell_market[1]
    /\ orders[2].side = "bid" /\ orders[2].market = answer.buy_market[1]

\* C21: an accepted swap, with the balance to buy, is carried out as the sell
\* order of the losing position followed by the buy order of the replacement
\* and no other order.
C21_AcceptedSwapSellsThenBuys ==
    \A settings \in SwapSettings, ai \in TickAi, in \in SwapInputs :
       \A losing_positions \in LosingLists(positions) :
          (/\ SwapAccepted(RM, settings, ai, losing_positions, in)
           /\ get_krw_balance(in.resp).value >= settings.min_balance_for_buy)
             => SwapIsSellThenBuy(
                    _analyze_position_swap(RM, max_positions, today, settings, ai,
                                           losing_positions, in).orders,
                    in.answer[1])

Asked == ret.op = "select_candidate" /\ ret.decision # None /\ ret.decision[1].asked
MarketsOf(entries) == {entries[i].market : i \in 1..Len(entries)}

\* C23: with the analyzer on and two or more candidates, unless the
\* analyzer's pick is one of the candidates put to it, has a confidence that
\* meets the threshold and a risk level other than HIGH, the candidate chosen
\* is the first by trade amount.
C23_PickOnlyIfSubmitted ==
    Asked =>
       LET d == ret.decision[1]
           pick == d.analysis[1].result
           accepted ==
               /\ pick.recommended_coin # None
               /\ MarketOf(pick.recommended_coin[1]) \in MarketsOf(d.ai_candidates)
               /\ pick.confidence >= ret.settings.ai_confidence_threshold
               /\ pick.risk_level # "HIGH"
       IN IF accepted THEN d.best.market = MarketOf(pick.recommended_coin[1])
          ELSE d.best = d.spike_candidates[1]

\* C24: when the first model answers with a confidence below the threshold
\* the second model is asked and, when it answers, the answer kept is the
\* second's if its confidence is the higher and the first's otherwise; when
\* the first answer meets the threshold the second model is not asked and the
\* first answer is kept.
C24_FallbackModelByConfidence ==
    (Asked /\ ret.primary # None) =>
       LET a == ret.decision[1].analysis[1]
           first == ret.primary[1]
       IN IF first.confidence < ret.settings.ai_confidence_threshold
          THEN /\ a.fallback_asked
               /\ ret.fallback # None =>
                     a.result = IF ret.fallback[1].confidence > first.confidence
                                THEN ret.fallback[1] ELSE first
          ELSE ~a.fallback_asked /\ a.result = first
\* The first model answered 5 under a threshold of 7, the second 8 for a
\* candidate that was put to it, and the second's candidate is the one chosen.
C24_Witness ==
    /\ Asked /\ ret.primary # None /\ ret.fallback # None
    /\ ret.primary[1].confidence = 5
    /\ ret.fallback[1].confidence = 8
    /\ ret.decision[1].analysis[1].result = ret.fallback[1]
    /\ MarketOf(ret.fallback[1].recommended_coin[1])
          \in MarketsOf(ret.decision[1].ai_candidates)
    /\ ret.decision[1].best.market = MarketOf(ret.fallback[1].recommended_coin[1])
    /\ ret.decision[1].best # ret.decision[1].spike_candidates[1]

\* C25: when the call of the first model fails and there is a candidate, the
\* candidate chosen is one with the highest rule-based score.
C25_RuleBasedPickOnFailure ==
    (Asked /\ ret.primary = None) =>
       LET d == ret.decision[1]
       IN \A i \in 1..Len(d.spike_candidates) :
             total_score(d.best) >= total_score(d.spike_candidates[i])

\* No market of the view yields a candidate: no spike is seen, or no price
\* or price change is read, or the price change reaches the threshold.
NoCandidate(view, settings) ==
    \A m \in Markets :
       \/ view[m] = None
       \/ Falsy(view[m][1].current_price)
       \/ view[m][1].price_change = None
       \/ Abs(view[m][1].price_change[1]) >= settings.price_change_threshold

\* C26: a scan that finds no candidate does not ask the analyzer, sends no
\* order and leaves the ledger as it was.
C26_NoCandidateNoAction ==
    pc = "scan" =>
       \A view \in ScanViews \cup {NoView}, advice \in Advices(ret.settings, ret.ai, NoView),
          resp \in ScanResponses, reply \in TickReplies :
             NoCandidate(view, ret.settings) =>
                LET r == _scan_for_opportunities(RM, max_positions, today, ret.settings,
                             TradeableMarkets, view, ret.ai, advice, resp,
                             reply[1], reply[2])
                IN r.rm = RM /\ r.orders = << >> /\ ~r.asked
\* A pass reaches its scan below the cap, with the analyzer on, and the only
\* spike seen is one whose price change is at the threshold.
C26_Witness ==
    /\ pc = "scan"
    /\ ret.ai.enabled
    /\ Cardinality(OpenMarkets(positions)) < ret.settings.max_positions
    /\ \E view \in ScanViews :
          /\ view # NoView
          /\ NoCandidate(view, ret.settings)
          /\ \E resp \in ScanResponses, reply \in TickReplies :
                /\ get_krw_balance(resp).value >= ret.settings.min_balance_for_buy
                /\ reply[1] # None
                /\ _scan_for_opportunities(RM, max_positions, today, ret.settings,
                       TradeableMarkets, view, ret.ai, None, resp,
                       reply[1], reply[2]).rm = RM

\* The open-position index: per open market the four compared fields.
OpenIndex(ps) ==
    [m \in OpenMarkets(ps) |->
        [instrument |-> ps[m].market, entryPrice |-> ps[m].entry_price,
         quantity |-> ps[m].quantity, investmentAmount |-> ps[m].investment_amount]]

\* C27: reconciling a second time, later, against the same balances and
\* prices and with nothing done to the ledger in between, leaves the
\* open-position index as the first reconciliation made it.
C27_ReconcileTwiceSameIndex ==
    \A resp \in Responses, price \in PriceMaps :
       LET first == restore_positions_from_upbit(RM, today, resp, price)
           second == restore_positions_from_upbit(first, today + 1, resp, price)
       IN OpenIndex(second.positions) = OpenIndex(first.positions)
\* A held position was bought at one price and is reconciled at another: the
\* first run restores it at the recorded buy price, the second run, a day
\* later, restores the same four fields with a new entry time.
C27_Witness ==
    /\ ret.op = "restore_positions_from_upbit"
    /\ ret.resp.kind = "ok"
    /\ \E m \in OpenMarkets(positions), price \in PriceMaps :
          /\ ~Falsy(price[m])
          /\ price[m][1] # positions[m].entry_price
          /\ LET second == restore_positions_from_upbit(RM, today + 1, ret.resp, price)
             IN /\ OpenIndex(second.positions) = OpenIndex(positions)
                /\ second.positions[m].entry_time # positions[m].entry_time

StopRequested == pc = "loop" /\ ~is_running
\* The loop has ended and the bot has not been started again.
Stopped == pc = "idle" /\ ~is_running

\* C29: once stop() is called, whether the bot was running or paused, the
\* loop makes no further pass: its next step is the exit, which sends no
\* order, and the bot ends stopped; while stop is pending and while the bot
\* is stopped nothing changes the ledger, until the bot is started again.
C29_StopEndsLoop ==
    /\ [][StopRequested =>
             /\ UNCHANGED ledger
             /\ ret'.op = "_main_loop" =>
                   (ret'.branch = "exit" /\ ret'.orders = << >> /\ Stopped')]_vars
    /\ [][(Stopped /\ ret'.op # "start") => (UNCHANGED ledger /\ Stopped')]_vars
    /\ StopRequested ~> Stopped
\* The loop has ended after stop() was called on a paused bot that held an
\* open position.
C29_Witness ==
    /\ Stopped
    /\ ret.op = "_main_loop" /\ ret.branch = "exit"
    /\ is_paused
    /\ OpenMarkets(positions) # {}

\* The three exit fields of a position.
ExitFields(p) == <<p.exit_price, p.exit_time, p.profit_loss>>
ExitFieldsByStatus ==
    \A m \in DOMAIN positions :
       /\ positions[m].status \in {"open", "closed"}
       /\ positions[m].status = "open" => ExitFields(positions[m]) = <<None, None, None>>
       /\ positions[m].status = "closed" =>
             \A i \in 1..3 : ExitFields(positions[m])[i] # None
\* should_sell and get_position_pnl only read, and for a closed position
\* they answer as for a market that was never opened.
ReadersSkipClosed ==
    \A m \in DOMAIN positions, x \in Prices, pt \in ProfitRates, sl \in LossRates :
       positions[m].status = "closed" =>
          /\ get_position_pnl(RM, m, x) = None
          /\ should_sell(RM, m, x, pt, sl) = <<FALSE, "">>

\* C30: exit price, exit time and realized P&L are all unset while a
\* position is open and all set once it is closed; a position goes from open
\* to closed only in a close_position call that returned its P&L, which sets
\* the three at once; and a later close_position, should_sell,
\* get_position_pnl or rejected add_position changes no field of a closed
\* position.
C30_ExitFieldsSetOnceAtClose ==
    /\ [](ExitFieldsByStatus /\ ReadersSkipClosed)
    /\ [][\A m \in OpenMarkets(positions) :
             (m \in DOMAIN positions' /\ positions'[m].status = "closed") =>
                /\ ret'.op = "close_position" /\ ret'.market = m
                /\ ret'.value # None
                /\ positions'[m] = [positions[m] EXCEPT
                                       !.status = "closed",
                                       !.exit_price = Some(ret'.exit_price),
                                       !.exit_time = Some(today),
                                       !.profit_loss = ret'.value]]_vars
    /\ [][(ret'.op = "close_position" \/ (ret'.op = "add_position" /\ ~ret'.value)) =>
             \A m \in DOMAIN positions \ OpenMarkets(positions) :
                m \in DOMAIN positions' /\ positions'[m] = positions[m]]_vars
\* A position closed with a P&L other than 0 on an earlier day is still in
\* the index, as it was closed, after an open was rejected.
C30_Witness ==
    /\ ret.op = "add_position" /\ ~ret.value
    /\ \E m \in DOMAIN positions :
          /\ positions[m].status = "closed"
          /\ positions[m].profit_loss # Some(0)
          /\ positions[m].exit_time # Some(today)

\* ---- C31 (startup, SpecStartup)
\* C31: when positions.json cannot be read at construction, be it the whole
\* file or one record after others were read, the index is empty after the
\* constructor; and start() then replaces it by what reconciliation makes
\* of the exchange's balances.
C31_FailedReadStartsEmpty ==
    /\ []((ret.op = "__init__" /\ ret.damage # None) => positions = EmptyDict)
    /\ [][(ret.op = "__init__" /\ ret.damage # None /\ ret'.op = "start") =>
             \E price \in PriceMapsFor(ret'.resp) :
                positions' = restore_positions_from_upbit(RM, today, ret'.resp,
                                                          price).positions]_vars

\* ---- C32 (decision engine, SpecDecide)
\* C32: when the scan finds exactly one candidate, or the analyzer is off,
\* the analyzer is not asked and the candidate chosen is the first of the
\* candidates sorted by trade amount, whose trade amount no other exceeds.
C32_RankOneWithoutAnalyzer ==
    (/\ ret.op = "select_candidate"
     /\ ret.decision # None
     /\ (Len(ret.decision[1].spike_candidates) = 1 \/ ~ret.ai.enabled)) =>
       LET d == ret.decision[1]
       IN /\ ~d.asked
          /\ d.analysis = None
          /\ d.best = d.spike_candidates[1]
          /\ \A i \in 1..Len(d.spike_candidates) :
                d.best.trade_amount >= d.spike_candidates[i].trade_amount
\* With the analyzer off, three candidates were found and the one chosen is
\* the last of the scan, which has the largest trade amount.
C32_Witness ==
    /\ ret.op = "select_candidate"
    /\ ret.decision # None
    /\ ~ret.ai.enabled
    /\ Len(ret.decision[1].spike_candidates) = 3
    /\ ret.decision[1].best.market = MarketOf("C")
    /\ \A i \in 2..3 : ret.decision[1].spike_candidates[i].trade_amount
                          < ret.decision[1].best.trade_amount

\* ---- C33 (decision engine, SpecTick)
\* An open position read at a price at which it is not sold, held for a day
\* or more and standing at -5% or lower.
SwapCandidate(m, settings, price) ==
    /\ m \in OpenMarkets(positions)
    /\ ~Falsy(price[m])
    /\ ~should_sell(RM, m, price[m][1], settings.profit_rate, settings.loss_rate)[1]
    /\ today - positions[m].entry_time >= 1
    /\ 100 * calculate_current_pnl(positions[m], price[m][1])
          <= (0 - 5) * positions[m].investment_amount

\* C33: in a pass the positions collected as losing positions are exactly
\* the open positions that were not sold, have been held for a day or more
\* and stand at -5% or lower (-5% itself included), and the swap analysis
\* sends orders only in a pass that collected one.
C33_LosersCollected ==
    pc = "idle" =>
       \A settings \in TickSettings, price \in TickPrices(OpenMarkets(positions)),
          order \in Orderings(OpenMarkets(positions)) :
          \A replies \in TickReplyMaps(RM, settings, price) :
             LET l == manage_loop(RM, today, settings, price, replies, order, 1,
                                  << >>, << >>, {})
                 r == _manage_positions(RM, max_positions, today, settings, price,
                                        replies, order, [enabled |-> TRUE, ok |-> TRUE,
                                        amount |-> 5], TRUE, NoSwapInput)
             IN /\ \A m \in Markets :
                      SwapCandidate(m, settings, price)
                         <=> m \in MarketsOf(l.losing_positions)
                /\ r.swap_orders # << >> => l.losing_positions # << >>

\* ---- C34 (reconciliation, SpecStartup)
\* The rows of the trade log that record a buy of the market.
BuyRows(m) ==
    {i \in 1..Len(trade_history) :
        trade_history[i].market = m /\ trade_history[i].action = "BUY"}
LatestBuyRow(m) == CHOOSE i \in BuyRows(m) : \A j \in BuyRows(m) : j <= i

C35_KeptUpToCeiling ==
    pc = "scan" =>
       \A view \in ScanViews, m \in Markets :
          (view[m] # None /\ ~Falsy(view[m][1].current_price)
              /\ view[m][1].price_change # None) =>
             (Abs(view[m][1].price_change[1]) <= ret.settings.price_change_threshold
                <=> m \in MarketsOf(scan_loop(TradeableMarkets, view, ret.settings, 1)))

\* ---- C36 (risk guardrail, Spec)
\* C36: in every state reached by reconciliations, opens and closes, the
\* number of open positions is at most max_positions.
C36_OpenCountWithinCap ==
    Cardinality(OpenMarkets(positions)) <= max_positions

\* ---- C37 (orchestrator and ledger, SpecTick)
\* C37: when the scan of a pass sends a buy order for a market, the ledger
\* holds no open position of that market and fewer open positions than its
\* own cap; so an order answered as done with an executed volume above zero
\* leaves the market with a position opened by this buy.
C37_BuyOnlyWhereOpenSucceeds ==
    pc = "scan" =>
       \A view \in ScanViews, resp \in ScanResponses, reply \in TickReplies :
          LET r == _scan_for_opportunities(RM, max_positions, today, ret.settings,
                       TradeableMarkets, view, ret.ai, None, resp, reply[1], reply[2])
          IN r.orders # << >> =>
                LET m == r.orders[1].market
                IN /\ m \notin OpenMarkets(positions)
                   /\ Cardinality(OpenMarkets(positions)) < max_positions
                   /\ (reply[1] # None /\ Confirmed(reply[2])
                          /\ reply[2][1].executed_volume > 0) =>
                         /\ m \in OpenMarkets(r.rm.positions)
                         /\ r.rm.trade_history # trade_history

Sends(orders, side) == \E i \in 1..Len(orders) : orders[i].side = side

BuyTrialResponses ==
    {[kind |-> "error"], [kind |-> "malformed", body |-> <<NotADict>>]}
    \cup {[kind |-> "ok", body |-> AccountsList(k, [c \in Currencies |-> 0])] :
            k \in {4, 8, 29, 30, 50}}
BuyTrialSettings ==
    {[min_balance_for_buy |-> mb, investment_amount |-> 30, daily_loss_limit |-> 0 - 1] :
        mb \in {5, 30}}

\* C40: _execute_buy sends no order when the KRW balance it reads first is
\* below min_balance_for_buy (or cannot be read), and the amount of an order
\* it sends is at most that balance, with the allocation of the analyzer and
\* with the default amount alike.
C40_BuyWithinBalance ==
    \A c \in Candidates, s \in BuyTrialSettings, resp \in BuyTrialResponses,
       ai \in AiOutcomes, reply \in TickReplies :
          LET krw == get_krw_balance(resp)
              r == _execute_buy(RM, max_positions, today, c, s, resp, ai,
                                reply[1], reply[2])
          IN /\ (krw.raised \/ krw.value < s.min_balance_for_buy) =>
                   (r.orders = << >> /\ r.rm = RM)
             /\ \A i \in 1..Len(r.orders) :
                   /\ r.orders[i].side = "bid"
                   /\ ~krw.raised /\ r.orders[i].price <= krw.value
\* A buy was made, and from the state it left: a balance of 29 under a
\* minimum of 30 sends nothing; a balance of 8 over a minimum of 5 sends
\* nothing for the analyzer's allocation (raised to the floor of 10) and
\* an order within the balance for the default amount.
C40_Witness ==
    /\ ret.op = "_execute_buy" /\ ret.orders # << >>
    /\ \E c \in Candidates :
          LET buy(mb, k, ai) ==
                  _execute_buy(RM, max_positions, today, c,
                      [min_balance_for_buy |-> mb, investment_amount |-> 30,
                       daily_loss_limit |-> 0 - 1],
                      [kind |-> "ok", body |-> AccountsList(k, [x \in Currencies |-> 0])],
                      ai, None, None).orders
          IN /\ buy(30, 29, AiDisabled) = << >>
             /\ buy(5, 8, [enabled |-> TRUE, ok |-> TRUE, amount |-> 5]) = << >>
             /\ buy(5, 8, AiDisabled) # << >>
             /\ buy(5, 8, AiDisabled)[1].price <= 8

====
